---- MODULE Spec2Model ----
(***************************************************************************)
(* Model of the Cynova REST backend: four resource routers (produits,      *)
(* ingredients, blogs, utilisateurs), each a set of controllers that       *)
(* validate a payload against a Joi schema, call one Prisma table and      *)
(* shape a JSON response.                                                  *)
(*                                                                         *)
(* Conventions of the model                                                *)
(*  - free text that the code inspects character by character (names,     *)
(*    e-mails, query-string numbers, passwords, searched columns) is a     *)
(*    tuple of one-letter strings; other texts are TLA+ strings;           *)
(*  - a JavaScript number is an integer count of thousandths, so           *)
(*    that 8.907 and its rounding to 8.91 are both representable;          *)
(*  - a payload, a stored row and a JSON body are functions from keys to   *)
(*    values; an undefined key and a NULL column are an absent key;        *)
(*  - "record or null" results of the store are sets with at most one row. *)
(***************************************************************************)
EXTENDS Integers, Sequences, FiniteSets, TLC

VARIABLES router, db, clock, req, response, env, err, hits, pace, pending

vars == <<router, db, clock, req, response, env, err, hits, pace, pending>>

(***************************************************************************)
(* Bounds of the model                                                     *)
(***************************************************************************)
\* number of rows the store may ever create in one behaviour
MaxCreates == 2

(***************************************************************************)
(* Generic helpers                                                         *)
(***************************************************************************)
Has(f, k) == k \in DOMAIN f

EmptyMap == [k \in {} |-> TRUE]

\* f overridden by g on the keys of g (object spread { ...f, ...g })
Merge(f, g) == [k \in (DOMAIN f) \cup (DOMAIN g) |-> IF k \in DOMAIN g THEN g[k] ELSE f[k]]

Restrict(f, keys) == [k \in (DOMAIN f) \cap keys |-> f[k]]

Without(f, keys) == [k \in (DOMAIN f) \ keys |-> f[k]]

Rep(n, c) == [i \in 1..n |-> c]

Min(S) == CHOOSE x \in S : \A y \in S : x <= y

\* the JavaScript number n, in thousandths
Num(n) == n * 1000

RECURSIVE Pow10(_)
Pow10(n) == IF n = 0 THEN 1 ELSE 10 * Pow10(n - 1)

(***************************************************************************)
(* JavaScript primitives used by the controllers                           *)
(***************************************************************************)
Digits == <<"0", "1", "2", "3", "4", "5", "6", "7", "8", "9">>

IsDigit(c) == \E d \in 1..10 : Digits[d] = c

DigitVal(c) == (CHOOSE d \in 1..10 : Digits[d] = c) - 1

\* number of leading decimal digits of s from position i
RECURSIVE DigitRun(_, _)
DigitRun(s, i) ==
  IF i <= Len(s) /\ IsDigit(s[i]) THEN 1 + DigitRun(s, i + 1) ELSE 0

RECURSIVE DigitsValue(_, _, _)
DigitsValue(s, i, n) ==
  IF n = 0 THEN 0 ELSE DigitsValue(s, i, n - 1) * 10 + DigitVal(s[i + n - 1])

\* a JavaScript number that may be NaN or infinite
JsInt(n) == [kind |-> "int", v |-> n]
JsNaN == [kind |-> "NaN", v |-> 0]
JsInfinity == [kind |-> "Infinity", v |-> 0]

\* parseInt(string): optional sign, then the leading digits; NaN without a digit
ParseInt(s) ==
  LET neg == Len(s) >= 1 /\ s[1] = "-"
      start == IF Len(s) >= 1 /\ s[1] \in {"-", "+"} THEN 2 ELSE 1
      n == DigitRun(s, start)
  IN IF n = 0 THEN JsNaN
     ELSE JsInt((IF neg THEN -1 ELSE 1) * DigitsValue(s, start, n))

\* up to three decimals of s from position i, in thousandths
FracMilli(s, i, n) ==
  (IF n >= 1 THEN 100 * DigitVal(s[i]) ELSE 0)
  + (IF n >= 2 THEN 10 * DigitVal(s[i + 1]) ELSE 0)
  + (IF n >= 3 THEN DigitVal(s[i + 2]) ELSE 0)

\* parseFloat(string), in thousandths: sign, digits, and a fraction
ParseFloat(s) ==
  LET neg == Len(s) >= 1 /\ s[1] = "-"
      start == IF Len(s) >= 1 /\ s[1] \in {"-", "+"} THEN 2 ELSE 1
      n == DigitRun(s, start)
      dot == start + n <= Len(s) /\ s[start + n] = "."
      m == IF dot THEN DigitRun(s, start + n + 1) ELSE 0
  IN IF n = 0 /\ m = 0 THEN JsNaN
     ELSE JsInt((IF neg THEN -1 ELSE 1)
                * (Num(DigitsValue(s, start, n)) + FracMilli(s, start + n + 1, m)))

\* parseInt(string) as a number of the store, in thousandths
ParseIntNum(s) == LET x == ParseInt(s) IN IF x.kind = "int" THEN JsInt(Num(x.v)) ELSE x

\* ceiling of a / b for integers, b # 0
CeilDiv(a, b) == -((-a) \div b)

\* Math.ceil(total / limit) with JavaScript's division
MathCeilDiv(total, limit) ==
  IF limit.kind = "NaN" THEN JsNaN
  ELSE IF limit.v = 0 THEN (IF total = 0 THEN JsNaN ELSE JsInfinity)
  ELSE JsInt(CeilDiv(total, limit.v))

\* a skip that counts the requested page itself among the pages left out
JsSkipWholePages(page, limit) ==
  IF page.kind = "NaN" \/ limit.kind = "NaN" THEN JsNaN
  ELSE JsInt(page.v * limit.v)

\* (parseInt(page) - 1) * parseInt(limit)
JsSkip(page, limit) ==
  IF page.kind = "NaN" \/ limit.kind = "NaN" THEN JsNaN
  ELSE JsInt((page.v - 1) * limit.v)

\* JSON.stringify of a number: NaN and Infinity are written as null
JsonNumber(x) == IF x.kind = "int" THEN <<"num", x.v>> ELSE <<"null">>

(***************************************************************************)
(* Joi: the rules of one key, and the validation of a payload              *)
(*                                                                         *)
(* A schema is the sequence of its keys' rules in source order. A rule is  *)
(* a record that holds only the constraints the source states: type, and   *)
(* optionally required, default, min, max, only, email, uri, integer,      *)
(* positive, precision.                                                    *)
(***************************************************************************)
Keys(schema) == {schema[i].key : i \in 1..Len(schema)}

\* string().email(): one "@", a local part, and a domain of at least two
\* non-empty segments
IsEmail(s) ==
  \E i \in 2..(Len(s) - 1) :
    /\ s[i] = "@"
    /\ \A j \in 1..Len(s) : s[j] = "@" => j = i
    /\ s[i + 1] # "."
    /\ s[Len(s)] # "."
    /\ \E j \in (i + 2)..(Len(s) - 1) : s[j] = "."
    /\ \A j \in (i + 1)..(Len(s) - 1) : ~(s[j] = "." /\ s[j + 1] = ".")

\* string().uri(): a scheme, ":", and something after it
IsUri(s) == \E i \in 2..(Len(s) - 1) : s[i] = ":" /\ \A j \in 1..(i - 1) : s[j] # ":"

\* number base validation under convert: Math.round(v * 10^p) / 10^p
RoundPrecision(v, p) ==
  LET unit == Pow10(3 - p) IN ((2 * v + unit) \div (2 * unit)) * unit

Coerce(rule, v) ==
  IF rule.type = "number" /\ Has(rule, "precision") THEN RoundPrecision(v, rule.precision)
  ELSE v

StringError(rule, v) ==
  IF Has(rule, "only") THEN (IF v \in rule.only THEN "ok" ELSE "any.only")
  ELSE IF Len(v) = 0 THEN "string.empty"
  ELSE IF Has(rule, "min") /\ Len(v) < rule.min THEN "string.min"
  ELSE IF Has(rule, "max") /\ Len(v) > rule.max THEN "string.max"
  ELSE IF Has(rule, "email") /\ ~IsEmail(v) THEN "string.email"
  ELSE IF Has(rule, "uri") /\ ~IsUri(v) THEN "string.uri"
  ELSE "ok"

NumberError(rule, v) ==
  IF Has(rule, "positive") /\ v <= 0 THEN "number.positive"
  ELSE IF Has(rule, "integer") /\ v % Num(1) # 0 THEN "number.integer"
  ELSE IF Has(rule, "min") /\ v < Num(rule.min) THEN "number.min"
  ELSE IF Has(rule, "max") /\ v > Num(rule.max) THEN "number.max"
  ELSE "ok"

\* the violation of one key of the schema by the payload, "ok" when none
KeyError(rule, body) ==
  IF ~Has(body, rule.key) THEN (IF Has(rule, "required") THEN "any.required" ELSE "ok")
  ELSE IF rule.type = "string" THEN StringError(rule, body[rule.key])
  ELSE IF rule.type = "number" THEN NumberError(rule, Coerce(rule, body[rule.key]))
  ELSE "ok"

\* error.details of a schema with allowUnknown
JoiDetailsAllowUnknown(schema, body) ==
  LET bad == {i \in 1..Len(schema) : KeyError(schema[i], body) # "ok"}
  IN IF bad # {} THEN << <<schema[Min(bad)].key, KeyError(schema[Min(bad)], body)>> >>
     ELSE << >>

\* error.details: with abortEarly (the default) the first violation only; the
\* known keys are validated in schema order, unknown keys are refused after them
JoiDetails(schema, body) ==
  LET bad == {i \in 1..Len(schema) : KeyError(schema[i], body) # "ok"}
      unknown == (DOMAIN body) \ Keys(schema)
  IN IF bad # {} THEN << <<schema[Min(bad)].key, KeyError(schema[Min(bad)], body)>> >>
     ELSE IF unknown # {} THEN << <<CHOOSE k \in unknown : TRUE, "object.unknown">> >>
     ELSE << >>

\* value: the payload's keys converted, plus the default of every absent key
\* that has one
JoiValue(schema, body) ==
  LET given == {i \in 1..Len(schema) : Has(body, schema[i].key)}
      defaulted == {i \in 1..Len(schema) : ~Has(body, schema[i].key) /\ Has(schema[i], "default")}
      idx(k) == CHOOSE i \in 1..Len(schema) : schema[i].key = k
  IN [k \in {schema[i].key : i \in given \cup defaulted} |->
        IF Has(body, k) THEN Coerce(schema[idx(k)], body[k]) ELSE schema[idx(k)].default]

\* schema.validate(req.body): { error, value }
Validate(schema, body) ==
  [details |-> JoiDetails(schema, body), value |-> JoiValue(schema, body)]

(***************************************************************************)
(* The schemas of the four controllers                                     *)
(***************************************************************************)
ProduitCategories == {"shampoing", "savon", "crème", "huile", "masque", "gommage"}

BlogCategories == {"ingrédients", "conseils", "DIY", "santé", "recettes"}

Roles == {"ADMIN", "USER"}

produitSchema ==
  << [key |-> "nom", type |-> "string", min |-> 2, max |-> 100, required |-> TRUE],
     [key |-> "description", type |-> "string", min |-> 10, max |-> 500, required |-> TRUE],
     [key |-> "prix", type |-> "number", positive |-> TRUE, precision |-> 2, required |-> TRUE],
     [key |-> "categorie", type |-> "string", only |-> ProduitCategories, required |-> TRUE],
     [key |-> "ingredientIds", type |-> "string", default |-> "[]"],
     [key |-> "bienfaits", type |-> "string", default |-> "[]"],
     [key |-> "quantiteIds", type |-> "string", default |-> "[]"],
     [key |-> "yukaScore", type |-> "number", integer |-> TRUE, min |-> 0, max |-> 100],
     [key |-> "provenance", type |-> "string", max |-> 50],
     [key |-> "stock", type |-> "number", integer |-> TRUE, min |-> 0, required |-> TRUE],
     [key |-> "blogIds", type |-> "string", default |-> "[]"],
     [key |-> "imageUrl", type |-> "string", uri |-> TRUE],
     [key |-> "actif", type |-> "boolean", default |-> TRUE] >>

updateProduitSchema ==
  << [key |-> "nom", type |-> "string", min |-> 2, max |-> 100],
     [key |-> "description", type |-> "string", min |-> 10, max |-> 500],
     [key |-> "prix", type |-> "number", positive |-> TRUE, precision |-> 2],
     [key |-> "categorie", type |-> "string", only |-> ProduitCategories],
     [key |-> "ingredientIds", type |-> "string"],
     [key |-> "bienfaits", type |-> "string"],
     [key |-> "quantiteIds", type |-> "string"],
     [key |-> "yukaScore", type |-> "number", integer |-> TRUE, min |-> 0, max |-> 100],
     [key |-> "provenance", type |-> "string", max |-> 50],
     [key |-> "stock", type |-> "number", integer |-> TRUE, min |-> 0],
     [key |-> "blogIds", type |-> "string"],
     [key |-> "imageUrl", type |-> "string", uri |-> TRUE],
     [key |-> "actif", type |-> "boolean"] >>

\* ingredientSchema with bio defaulting to true
ingredientSchemaBioTrue ==
  << [key |-> "nom", type |-> "string", min |-> 2, max |-> 100, required |-> TRUE],
     [key |-> "origine", type |-> "string", max |-> 50],
     [key |-> "description", type |-> "string", max |-> 500],
     [key |-> "bio", type |-> "boolean", default |-> TRUE],
     [key |-> "allergene", type |-> "boolean", default |-> FALSE],
     [key |-> "produitId", type |-> "string"] >>

ingredientSchema ==
  << [key |-> "nom", type |-> "string", min |-> 2, max |-> 100, required |-> TRUE],
     [key |-> "origine", type |-> "string", max |-> 50],
     [key |-> "description", type |-> "string", max |-> 500],
     [key |-> "bio", type |-> "boolean", default |-> FALSE],
     [key |-> "allergene", type |-> "boolean", default |-> FALSE],
     [key |-> "produitId", type |-> "string"] >>

\* updateIngredientSchema with the defaults of ingredientSchema kept
updateIngredientSchemaDefaults ==
  << [key |-> "nom", type |-> "string", min |-> 2, max |-> 100],
     [key |-> "origine", type |-> "string", max |-> 50],
     [key |-> "description", type |-> "string", max |-> 500],
     [key |-> "bio", type |-> "boolean", default |-> FALSE],
     [key |-> "allergene", type |-> "boolean", default |-> FALSE],
     [key |-> "produitId", type |-> "string"] >>

updateIngredientSchema ==
  << [key |-> "nom", type |-> "string", min |-> 2, max |-> 100],
     [key |-> "origine", type |-> "string", max |-> 50],
     [key |-> "description", type |-> "string", max |-> 500],
     [key |-> "bio", type |-> "boolean"],
     [key |-> "allergene", type |-> "boolean"],
     [key |-> "produitId", type |-> "string"] >>

blogSchema ==
  << [key |-> "titre", type |-> "string", min |-> 5, max |-> 200, required |-> TRUE],
     [key |-> "contenu", type |-> "string", min |-> 50, max |-> 10000, required |-> TRUE],
     [key |-> "categorie", type |-> "string", only |-> BlogCategories, required |-> TRUE],
     [key |-> "auteur", type |-> "string", max |-> 100, default |-> "Équipe Cynova"],
     [key |-> "imageUrl", type |-> "string", uri |-> TRUE],
     [key |-> "produitIds", type |-> "string", default |-> "[]"],
     [key |-> "tags", type |-> "string", default |-> <<"[", "]">>],
     [key |-> "publie", type |-> "boolean", default |-> TRUE] >>

updateBlogSchema ==
  << [key |-> "titre", type |-> "string", min |-> 5, max |-> 200],
     [key |-> "contenu", type |-> "string", min |-> 50, max |-> 10000],
     [key |-> "categorie", type |-> "string", only |-> BlogCategories],
     [key |-> "auteur", type |-> "string", max |-> 100],
     [key |-> "imageUrl", type |-> "string", uri |-> TRUE],
     [key |-> "produitIds", type |-> "string"],
     [key |-> "tags", type |-> "string"],
     [key |-> "publie", type |-> "boolean"] >>

\* utilisateurSchema without email() on the e-mail
utilisateurSchemaAnyEmail ==
  << [key |-> "email", type |-> "string", required |-> TRUE],
     [key |-> "motDePasse", type |-> "string", min |-> 8, required |-> TRUE],
     [key |-> "nom", type |-> "string", max |-> 100],
     [key |-> "prenom", type |-> "string", max |-> 100],
     [key |-> "role", type |-> "string", only |-> Roles, default |-> "USER"],
     [key |-> "adresse", type |-> "string", max |-> 200],
     [key |-> "telephone", type |-> "string", max |-> 20],
     [key |-> "newsletter", type |-> "boolean", default |-> FALSE] >>

utilisateurSchema ==
  << [key |-> "email", type |-> "string", email |-> TRUE, required |-> TRUE],
     [key |-> "motDePasse", type |-> "string", min |-> 8, required |-> TRUE],
     [key |-> "nom", type |-> "string", max |-> 100],
     [key |-> "prenom", type |-> "string", max |-> 100],
     [key |-> "role", type |-> "string", only |-> Roles, default |-> "USER"],
     [key |-> "adresse", type |-> "string", max |-> 200],
     [key |-> "telephone", type |-> "string", max |-> 20],
     [key |-> "newsletter", type |-> "boolean", default |-> FALSE] >>

updateUtilisateurSchema ==
  << [key |-> "email", type |-> "string", email |-> TRUE],
     [key |-> "motDePasse", type |-> "string", min |-> 8],
     [key |-> "nom", type |-> "string", max |-> 100],
     [key |-> "prenom", type |-> "string", max |-> 100],
     [key |-> "role", type |-> "string", only |-> Roles],
     [key |-> "adresse", type |-> "string", max |-> 200],
     [key |-> "telephone", type |-> "string", max |-> 20],
     [key |-> "newsletter", type |-> "boolean"] >>

(***************************************************************************)
(* bcrypt                                                                  *)
(*                                                                         *)
(* A hash is the version and cost prefix, the salt, then the password it   *)
(* was made from; only BcryptCompare looks inside it.                      *)
(***************************************************************************)
Salts == {"saltA", "saltB"}

\* const saltRounds = 10
saltRounds == 10

\* bcrypt.hash(password, saltRounds), with the salt the library draws
BcryptHash(password, rounds, salt) == <<"$2b$", ToString(rounds), salt>> \o password

\* bcrypt.compare(password, hash)
BcryptCompare(password, hash) ==
  /\ Len(hash) >= 3
  /\ hash[1] = "$2b$"
  /\ hash[3] \in Salts
  /\ SubSeq(hash, 4, Len(hash)) = password

(***************************************************************************)
(* Prisma: one table is a set of rows                                      *)
(***************************************************************************)
Tables == {"produit", "ingredient", "blog", "utilisateur"}

\* the columns the store declares unique, besides id
UniqueColumns(t) ==
  IF t = "ingredient" THEN {"nom"}
  ELSE IF t = "utilisateur" THEN {"email"}
  ELSE {}

\* the identifier the store gives its n-th row
NewId(n) == <<"c", n>>

\* rows of the table other than `self` that hold the same value in a unique column
UniqueConflict(rows, t, self, data) ==
  \E r \in rows \ self : \E c \in UniqueColumns(t) :
    Has(data, c) /\ Has(r, c) /\ r[c] = data[c]

\* prisma.<t>.findUnique({ where: { [col]: v } }): the row, or none
FindUnique(rows, col, v) == {r \in rows : Has(r, col) /\ r[col] = v}

\* prisma.<t>.findFirst({ where: { [col]: v } }): one matching row, or none
FindFirst(rows, col, v) ==
  LET found == {r \in rows : Has(r, col) /\ r[col] = v}
  IN IF found = {} THEN {} ELSE {CHOOSE r \in found : \A o \in found : r.createdAt <= o.createdAt}

\* a create on a table without unique columns
PrismaCreateUnchecked(rows, t, data, n) ==
  LET row == Merge(data, [id |-> NewId(n), createdAt |-> n])
  IN [code |-> "ok", row |-> {row}, rows |-> rows \cup {row}]

\* prisma.<t>.create({ data }): the new row and table, or error code P2002
PrismaCreate(rows, t, data, n) ==
  LET row == Merge(data, [id |-> NewId(n), createdAt |-> n])
  IN IF UniqueConflict(rows, t, {}, data)
     THEN [code |-> "P2002", row |-> {}, rows |-> rows]
     ELSE [code |-> "ok", row |-> {row}, rows |-> rows \cup {row}]

\* prisma.<t>.update({ where: { id }, data }): P2025 without the row, P2002 on
\* a unique column taken by another row
PrismaUpdate(rows, t, id, data) ==
  LET old == FindUnique(rows, "id", id)
      new == {Merge(r, data) : r \in old}
  IN IF old = {} THEN [code |-> "P2025", row |-> {}, rows |-> rows]
     ELSE IF UniqueConflict(rows, t, old, data)
     THEN [code |-> "P2002", row |-> {}, rows |-> rows]
     ELSE [code |-> "ok", row |-> new, rows |-> (rows \ old) \cup new]

\* prisma.<t>.delete({ where: { id } })
PrismaDelete(rows, id) ==
  LET old == FindUnique(rows, "id", id)
  IN IF old = {} THEN [code |-> "P2025", rows |-> rows]
     ELSE [code |-> "ok", rows |-> rows \ old]

\* the characters of the model's texts, in the store's (byte) order
Alphabet ==
  << "-", ".", "0", "1", "2", "3", "4", "5", "6", "7", "8", "9", ":", "@",
     "A", "D", "L", "M", "S", "a", "b", "c", "d", "e", "f", "i", "l", "n",
     "o", "p", "r", "t", "v", "w", "x" >>

CharCode(c) == CHOOSE i \in 1..Len(Alphabet) : Alphabet[i] = c

\* a < b for two texts, in the store's order
RECURSIVE TextLess(_, _)
TextLess(a, b) ==
  IF Len(b) = 0 THEN FALSE
  ELSE IF Len(a) = 0 THEN TRUE
  ELSE IF a[1] = b[1] THEN TextLess(Tail(a), Tail(b))
  ELSE CharCode(a[1]) < CharCode(b[1])

\* a containment that looks at the start of the text only
ContainsAtStart(text, q) == Len(q) <= Len(text) /\ SubSeq(text, 1, Len(q)) = q

\* a where condition on one column: equals, gte, lte, contains
Contains(text, q) ==
  \E i \in 1..(Len(text) - Len(q) + 1) : SubSeq(text, i, i + Len(q) - 1) = q

\* a column condition whose gte and lte leave the bound itself out
CondHoldsStrict(row, col, cond) ==
  /\ Has(row, col)
  /\ Has(cond, "equals") => row[col] = cond.equals
  /\ Has(cond, "gte") => row[col] > cond.gte.v
  /\ Has(cond, "lte") => row[col] < cond.lte.v
  /\ Has(cond, "contains") => Contains(row[col], cond.contains)

CondHolds(row, col, cond) ==
  /\ Has(row, col)
  /\ Has(cond, "equals") => row[col] = cond.equals
  /\ Has(cond, "gte") => row[col] >= cond.gte.v
  /\ Has(cond, "lte") => row[col] <= cond.lte.v
  /\ Has(cond, "contains") => Contains(row[col], cond.contains)

\* a where object: every column condition holds, and one of the OR alternatives
Matches(row, where) ==
  /\ \A col \in (DOMAIN where) \ {"OR"} : CondHolds(row, col, where[col])
  /\ Has(where, "OR") =>
       \E i \in 1..Len(where["OR"]) :
         \A col \in DOMAIN where["OR"][i] : CondHolds(row, col, where["OR"][i][col])

\* the store refuses a where object with a NaN bound
CondValid(cond) ==
  /\ Has(cond, "gte") => cond.gte.kind = "int"
  /\ Has(cond, "lte") => cond.lte.kind = "int"

WhereValid(where) == \A col \in (DOMAIN where) \ {"OR"} : CondValid(where[col])

\* orderBy: { nom: 'asc' } or { createdAt: 'desc' }; creation order breaks ties
Before(orderBy, a, b) ==
  IF orderBy = "nom asc"
  THEN TextLess(a.nom, b.nom) \/ (a.nom = b.nom /\ a.createdAt < b.createdAt)
  ELSE a.createdAt > b.createdAt

RECURSIVE Ordered(_, _)
Ordered(rows, orderBy) ==
  IF rows = {} THEN << >>
  ELSE LET first == CHOOSE r \in rows : \A o \in rows \ {r} : Before(orderBy, r, o)
       IN <<first>> \o Ordered(rows \ {first}, orderBy)

Reverse(s) == [i \in 1..Len(s) |-> s[Len(s) + 1 - i]]

\* the window [skip, skip + take) of a sequence
Window(s, skip, take) ==
  LET hi == IF skip + take < Len(s) THEN skip + take ELSE Len(s)
  IN IF skip >= Len(s) THEN << >> ELSE SubSeq(s, skip + 1, hi)

\* prisma.<t>.count({ where })
PrismaCount(rows, where) ==
  IF ~WhereValid(where) THEN [code |-> "invalid", n |-> 0]
  ELSE [code |-> "ok", n |-> Cardinality({r \in rows : Matches(r, where)})]

\* prisma.<t>.findMany({ where, skip, take, orderBy }); skip and take are
\* JavaScript numbers. The store refuses a NaN and a negative skip; a negative
\* take counts from the end of the ordered rows.
PrismaFindMany(rows, where, skip, take, orderBy) ==
  LET all == Ordered({r \in rows : Matches(r, where)}, orderBy)
  IN IF ~WhereValid(where) THEN [code |-> "invalid", rows |-> << >>]
     ELSE IF skip.kind # "int" \/ take.kind # "int" THEN [code |-> "invalid", rows |-> << >>]
     ELSE IF skip.v < 0 THEN [code |-> "invalid", rows |-> << >>]
     ELSE IF take.v >= 0 THEN [code |-> "ok", rows |-> Window(all, skip.v, take.v)]
     ELSE [code |-> "ok", rows |-> Reverse(Window(Reverse(all), skip.v, -take.v))]

\* findMany without skip and take
PrismaFindAll(rows, where, orderBy) ==
  IF ~WhereValid(where) THEN [code |-> "invalid", rows |-> << >>]
  ELSE [code |-> "ok", rows |-> Ordered({r \in rows : Matches(r, where)}, orderBy)]

\* select: { ...: true } of the utilisateur controllers, which leaves motDePasse out
\* the select of the utilisateur controllers with motDePasse: true added
SelectUtilisateurWithMotDePasse ==
  {"id", "email", "motDePasse", "nom", "prenom", "role", "adresse", "telephone",
   "newsletter", "createdAt", "updatedAt"}

SelectUtilisateur ==
  {"id", "email", "nom", "prenom", "role", "adresse", "telephone", "newsletter",
   "createdAt", "updatedAt"}

Select(row, columns) == Restrict(row, columns)

(***************************************************************************)
(* Responses                                                               *)
(***************************************************************************)
\* res.status(status).json(body)
Res(status, body) == [status |-> status, body |-> body]

\* the catch block of every controller; details is set in development mode
\* only and is left out here
ServerError == Res(500, [error |-> "Erreur serveur"])

InvalidData(details) == Res(400, [error |-> "Données invalides", details |-> details])

\* what a controller did: its response and the table it leaves
Out(res, rows) == [response |-> res, rows |-> rows]

TheRow(set) == CHOOSE r \in set : TRUE

\* req.query values: a key of the query string that is present and not empty
Truthy(query, k) == Has(query, k) /\ Len(query[k]) > 0

TextTrue == <<"t", "r", "u", "e">>

\* const { page = 1, limit = 10 } = req.query, through parseInt
PageOf(query) == IF Has(query, "page") THEN ParseInt(query.page) ELSE JsInt(1)

LimitOf(query) == IF Has(query, "limit") THEN ParseInt(query.limit) ELSE JsInt(10)

\* the pagination block of a list response
Pagination(query, total) ==
  [page |-> JsonNumber(PageOf(query)),
   limit |-> JsonNumber(LimitOf(query)),
   total |-> JsonNumber(JsInt(total)),
   pages |-> JsonNumber(MathCeilDiv(total, LimitOf(query)))]

\* the response built from what findMany and count returned; `name` is the
\* key of the rows in the body
PageResponse(found, total, query, name, columns) ==
  LET shown == [i \in 1..Len(found.rows) |-> Select(found.rows[i], columns)]
  IN IF found.code # "ok" \/ total.code # "ok" THEN ServerError
     ELSE Res(200, [pagination |-> Pagination(query, total.n)] @@ (name :> shown))

\* Promise.all([findMany({ where, skip, take, orderBy }), count({ where })]),
\* both on the same rows
ListPage(rows, where, query, orderBy, name, columns) ==
  Out(PageResponse(PrismaFindMany(rows, where, JsSkip(PageOf(query), LimitOf(query)),
                                  LimitOf(query), orderBy),
                   PrismaCount(rows, where), query, name, columns),
      rows)

\* findMany({ where, orderBy }) and the { rows, count } response
ListAll(rows, where, orderBy, name, columns) ==
  LET found == PrismaFindAll(rows, where, orderBy)
      shown == [i \in 1..Len(found.rows) |-> Select(found.rows[i], columns)]
  IN IF found.code # "ok" THEN Out(ServerError, rows)
     ELSE Out(Res(200, [count |-> Len(shown)] @@ (name :> shown)), rows)

\* a query without select returns every column
AllColumns ==
  Keys(produitSchema) \cup Keys(ingredientSchema) \cup Keys(blogSchema)
    \cup Keys(utilisateurSchema) \cup {"id", "createdAt", "updatedAt"}

(***************************************************************************)
(* produitController                                                       *)
(***************************************************************************)
\* a where that does not start from { actif: true }
ProduitWhereAnyActif(query, withSearch) ==
  (IF withSearch /\ Truthy(query, "q")
      THEN [OR |-> << [nom |-> [contains |-> query.q]],
                      [description |-> [contains |-> query.q]] >>]
      ELSE EmptyMap)
  @@ (IF Truthy(query, "categorie") THEN [categorie |-> [equals |-> query.categorie]]
      ELSE EmptyMap)
  @@ (IF Truthy(query, "yukaMin") THEN [yukaScore |-> [gte |-> ParseIntNum(query.yukaMin)]]
      ELSE EmptyMap)
  @@ (IF withSearch /\ Truthy(query, "prixMin")
      THEN [prix |-> (IF Truthy(query, "prixMax") THEN [lte |-> ParseFloat(query.prixMax)]
                      ELSE EmptyMap) @@ [gte |-> ParseFloat(query.prixMin)]]
      ELSE IF Truthy(query, "prixMax") THEN [prix |-> [lte |-> ParseFloat(query.prixMax)]]
      ELSE EmptyMap)

\* where = { actif: true } plus the filters of the query string
ProduitWhere(query, withSearch) ==
  [actif |-> [equals |-> TRUE]]
  @@ (IF withSearch /\ Truthy(query, "q")
      THEN [OR |-> << [nom |-> [contains |-> query.q]],
                      [description |-> [contains |-> query.q]] >>]
      ELSE EmptyMap)
  @@ (IF Truthy(query, "categorie") THEN [categorie |-> [equals |-> query.categorie]]
      ELSE EmptyMap)
  @@ (IF Truthy(query, "yukaMin") THEN [yukaScore |-> [gte |-> ParseIntNum(query.yukaMin)]]
      ELSE EmptyMap)
  @@ (IF withSearch /\ Truthy(query, "prixMin")
      THEN [prix |-> (IF Truthy(query, "prixMax") THEN [lte |-> ParseFloat(query.prixMax)]
                      ELSE EmptyMap) @@ [gte |-> ParseFloat(query.prixMin)]]
      ELSE IF Truthy(query, "prixMax") THEN [prix |-> [lte |-> ParseFloat(query.prixMax)]]
      ELSE EmptyMap)

getAllProduits(rows, query) ==
  ListPage(rows, ProduitWhere(query, FALSE), query, "createdAt desc", "produits", AllColumns)

searchProduits(rows, query) ==
  ListAll(rows, ProduitWhere(query, TRUE), "createdAt desc", "produits", AllColumns)

getProduitById(rows, id) ==
  IF Len(id) = 0 THEN Out(Res(400, [error |-> "ID du produit requis"]), rows)
  ELSE LET produit == FindUnique(rows, "id", id)
       IN IF produit = {} THEN Out(Res(404, [error |-> "Produit non trouvé"]), rows)
          ELSE Out(Res(200, TheRow(produit)), rows)

createProduit(rows, n, body) ==
  LET v == Validate(produitSchema, body)
      made == PrismaCreate(rows, "produit", v.value, n)
  IN IF v.details # << >> THEN Out(InvalidData(v.details), rows)
     ELSE IF made.code = "ok"
     THEN Out(Res(201, [message |-> "Produit créé avec succès", produit |-> TheRow(made.row)]),
              made.rows)
     ELSE IF made.code = "P2002"
     THEN Out(Res(400, [error |-> "Un produit avec ce nom existe déjà"]), rows)
     ELSE Out(ServerError, rows)

updateProduit(rows, id, body) ==
  LET v == Validate(updateProduitSchema, body)
      done == PrismaUpdate(rows, "produit", id, v.value)
  IN IF Len(id) = 0 THEN Out(Res(400, [error |-> "ID du produit requis"]), rows)
     ELSE IF v.details # << >> THEN Out(InvalidData(v.details), rows)
     ELSE IF FindUnique(rows, "id", id) = {}
     THEN Out(Res(404, [error |-> "Produit non trouvé"]), rows)
     ELSE IF done.code = "ok"
     THEN Out(Res(200, [message |-> "Produit mis à jour avec succès",
                        produit |-> TheRow(done.row)]), done.rows)
     ELSE Out(ServerError, rows)

\* deleteProduit without the findUnique lookup before the delete
deleteProduitNoLookup(rows, id) ==
  LET done == PrismaDelete(rows, id)
  IN IF Len(id) = 0 THEN Out(Res(400, [error |-> "ID du produit requis"]), rows)
     ELSE IF done.code = "ok"
     THEN Out(Res(200, [message |-> "Produit supprimé avec succès"]), done.rows)
     ELSE Out(ServerError, rows)

deleteProduit(rows, id) ==
  LET done == PrismaDelete(rows, id)
  IN IF Len(id) = 0 THEN Out(Res(400, [error |-> "ID du produit requis"]), rows)
     ELSE IF FindUnique(rows, "id", id) = {}
     THEN Out(Res(404, [error |-> "Produit non trouvé"]), rows)
     ELSE IF done.code = "ok"
     THEN Out(Res(200, [message |-> "Produit supprimé avec succès"]), done.rows)
     ELSE Out(ServerError, rows)

(***************************************************************************)
(* ingredientController                                                    *)
(***************************************************************************)
\* if (bio !== undefined) where.bio = bio === 'true', and so on
\* a where object that takes a flag into account only when it is 'true'
IngredientWhereTrueOnly(query, withSearch) ==
  (IF withSearch /\ Truthy(query, "q")
   THEN [OR |-> << [nom |-> [contains |-> query.q]],
                   [description |-> [contains |-> query.q]] >>]
   ELSE EmptyMap)
  @@ (IF Has(query, "bio") /\ query.bio = TextTrue THEN [bio |-> [equals |-> TRUE]]
      ELSE EmptyMap)
  @@ (IF Has(query, "allergene") /\ query.allergene = TextTrue
      THEN [allergene |-> [equals |-> TRUE]] ELSE EmptyMap)
  @@ (IF Truthy(query, "origine") THEN [origine |-> [equals |-> query.origine]] ELSE EmptyMap)

IngredientWhere(query, withSearch) ==
  (IF withSearch /\ Truthy(query, "q")
   THEN [OR |-> << [nom |-> [contains |-> query.q]],
                   [description |-> [contains |-> query.q]] >>]
   ELSE EmptyMap)
  @@ (IF Has(query, "bio") THEN [bio |-> [equals |-> (query.bio = TextTrue)]] ELSE EmptyMap)
  @@ (IF Has(query, "allergene")
      THEN [allergene |-> [equals |-> (query.allergene = TextTrue)]] ELSE EmptyMap)
  @@ (IF Truthy(query, "origine") THEN [origine |-> [equals |-> query.origine]] ELSE EmptyMap)

getAllIngredients(rows, query) ==
  ListPage(rows, IngredientWhere(query, FALSE), query, "nom asc", "ingredients", AllColumns)

searchIngredients(rows, query) ==
  ListAll(rows, IngredientWhere(query, TRUE), "nom asc", "ingredients", AllColumns)

getIngredientsByOrigin(rows, origine, query) ==
  ListPage(rows, [origine |-> [equals |-> origine]], query, "nom asc", "ingredients",
           AllColumns)

getBioIngredients(rows, query) ==
  ListPage(rows, [bio |-> [equals |-> TRUE]], query, "nom asc", "ingredients", AllColumns)

\* getIngredientById without its if (!id) test
getIngredientByIdLookupOnly(rows, id) ==
  LET ingredient == FindUnique(rows, "id", id)
  IN IF ingredient = {} THEN Out(Res(404, [error |-> "Ingrédient non trouvé"]), rows)
     ELSE Out(Res(200, TheRow(ingredient)), rows)

getIngredientById(rows, id) ==
  IF Len(id) = 0 THEN Out(Res(400, [error |-> "ID de l'ingrédient requis"]), rows)
  ELSE LET ingredient == FindUnique(rows, "id", id)
       IN IF ingredient = {} THEN Out(Res(404, [error |-> "Ingrédient non trouvé"]), rows)
          ELSE Out(Res(200, TheRow(ingredient)), rows)

\* createIngredient with the taken name answered 409 Conflict
createIngredientConflict409(rows, n, body) ==
  LET v == Validate(ingredientSchema, body)
      made == PrismaCreate(rows, "ingredient", v.value, n)
  IN IF v.details # << >> THEN Out(InvalidData(v.details), rows)
     ELSE IF FindFirst(rows, "nom", v.value.nom) # {}
     THEN Out(Res(409, [error |-> "Un ingrédient avec ce nom existe déjà"]), rows)
     ELSE IF made.code = "ok"
     THEN Out(Res(201, [message |-> "Ingrédient créé avec succès",
                        ingredient |-> TheRow(made.row)]), made.rows)
     ELSE IF made.code = "P2002"
     THEN Out(Res(400, [error |-> "Un ingrédient avec ce nom existe déjà"]), rows)
     ELSE Out(ServerError, rows)

createIngredient(rows, n, body) ==
  LET v == Validate(ingredientSchema, body)
      made == PrismaCreate(rows, "ingredient", v.value, n)
  IN IF v.details # << >> THEN Out(InvalidData(v.details), rows)
     ELSE IF FindFirst(rows, "nom", v.value.nom) # {}
     THEN Out(Res(400, [error |-> "Un ingrédient avec ce nom existe déjà"]), rows)
     ELSE IF made.code = "ok"
     THEN Out(Res(201, [message |-> "Ingrédient créé avec succès",
                        ingredient |-> TheRow(made.row)]), made.rows)
     ELSE IF made.code = "P2002"
     THEN Out(Res(400, [error |-> "Un ingrédient avec ce nom existe déjà"]), rows)
     ELSE Out(ServerError, rows)

updateIngredient(rows, id, body) ==
  LET v == Validate(updateIngredientSchema, body)
      done == PrismaUpdate(rows, "ingredient", id, v.value)
  IN IF Len(id) = 0 THEN Out(Res(400, [error |-> "ID de l'ingrédient requis"]), rows)
     ELSE IF v.details # << >> THEN Out(InvalidData(v.details), rows)
     ELSE IF FindUnique(rows, "id", id) = {}
     THEN Out(Res(404, [error |-> "Ingrédient non trouvé"]), rows)
     ELSE IF done.code = "ok"
     THEN Out(Res(200, [message |-> "Ingrédient mis à jour avec succès",
                        ingredient |-> TheRow(done.row)]), done.rows)
     ELSE Out(ServerError, rows)

deleteIngredient(rows, id) ==
  LET done == PrismaDelete(rows, id)
  IN IF Len(id) = 0 THEN Out(Res(400, [error |-> "ID de l'ingrédient requis"]), rows)
     ELSE IF FindUnique(rows, "id", id) = {}
     THEN Out(Res(404, [error |-> "Ingrédient non trouvé"]), rows)
     ELSE IF done.code = "ok"
     THEN Out(Res(200, [message |-> "Ingrédient supprimé avec succès"]), done.rows)
     ELSE Out(ServerError, rows)

(***************************************************************************)
(* blogController                                                          *)
(***************************************************************************)
BlogWhere(query) ==
  (IF Truthy(query, "categorie") THEN [categorie |-> [equals |-> query.categorie]]
   ELSE EmptyMap)
  @@ (IF Truthy(query, "auteur") THEN [auteur |-> [equals |-> query.auteur]] ELSE EmptyMap)
  @@ (IF Has(query, "publie") THEN [publie |-> [equals |-> (query.publie = TextTrue)]]
      ELSE EmptyMap)

BlogSearchWhere(query) ==
  (IF Truthy(query, "q")
   THEN [OR |-> << [titre |-> [contains |-> query.q]],
                   [contenu |-> [contains |-> query.q]] >>]
   ELSE EmptyMap)
  @@ (IF Truthy(query, "categorie") THEN [categorie |-> [equals |-> query.categorie]]
      ELSE EmptyMap)
  @@ (IF Truthy(query, "auteur") THEN [auteur |-> [equals |-> query.auteur]] ELSE EmptyMap)
  @@ (IF Truthy(query, "tags") THEN [tags |-> [contains |-> query.tags]] ELSE EmptyMap)

getAllBlogs(rows, query) ==
  ListPage(rows, BlogWhere(query), query, "createdAt desc", "blogs", AllColumns)

searchBlogs(rows, query) ==
  ListAll(rows, BlogSearchWhere(query), "createdAt desc", "blogs", AllColumns)

getBlogsByCategory(rows, categorie, query) ==
  ListPage(rows, [categorie |-> [equals |-> categorie], publie |-> [equals |-> TRUE]],
           query, "createdAt desc", "blogs", AllColumns)

getBlogById(rows, id) ==
  IF Len(id) = 0 THEN Out(Res(400, [error |-> "ID du blog requis"]), rows)
  ELSE LET blog == FindUnique(rows, "id", id)
       IN IF blog = {} THEN Out(Res(404, [error |-> "Blog non trouvé"]), rows)
          ELSE Out(Res(200, TheRow(blog)), rows)

\* createBlog storing req.body in place of the validated value
createBlogRawBody(rows, n, body) ==
  LET v == Validate(blogSchema, body)
      made == PrismaCreate(rows, "blog", body, n)
  IN IF v.details # << >> THEN Out(InvalidData(v.details), rows)
     ELSE IF made.code = "ok"
     THEN Out(Res(201, [message |-> "Blog créé avec succès", blog |-> TheRow(made.row)]),
              made.rows)
     ELSE IF made.code = "P2002"
     THEN Out(Res(400, [error |-> "Un blog avec ce titre existe déjà"]), rows)
     ELSE Out(ServerError, rows)

createBlog(rows, n, body) ==
  LET v == Validate(blogSchema, body)
      made == PrismaCreate(rows, "blog", v.value, n)
  IN IF v.details # << >> THEN Out(InvalidData(v.details), rows)
     ELSE IF made.code = "ok"
     THEN Out(Res(201, [message |-> "Blog créé avec succès", blog |-> TheRow(made.row)]),
              made.rows)
     ELSE IF made.code = "P2002"
     THEN Out(Res(400, [error |-> "Un blog avec ce titre existe déjà"]), rows)
     ELSE Out(ServerError, rows)

\* updateBlog looking the id up before it validates the payload
updateBlogLookupFirst(rows, id, body) ==
  LET v == Validate(updateBlogSchema, body)
      done == PrismaUpdate(rows, "blog", id, v.value)
  IN IF Len(id) = 0 THEN Out(Res(400, [error |-> "ID du blog requis"]), rows)
     ELSE IF FindUnique(rows, "id", id) = {}
     THEN Out(Res(404, [error |-> "Blog non trouvé"]), rows)
     ELSE IF v.details # << >> THEN Out(InvalidData(v.details), rows)
     ELSE IF done.code = "ok"
     THEN Out(Res(200, [message |-> "Blog mis à jour avec succès", blog |-> TheRow(done.row)]),
              done.rows)
     ELSE Out(ServerError, rows)

updateBlog(rows, id, body) ==
  LET v == Validate(updateBlogSchema, body)
      done == PrismaUpdate(rows, "blog", id, v.value)
  IN IF Len(id) = 0 THEN Out(Res(400, [error |-> "ID du blog requis"]), rows)
     ELSE IF v.details # << >> THEN Out(InvalidData(v.details), rows)
     ELSE IF FindUnique(rows, "id", id) = {}
     THEN Out(Res(404, [error |-> "Blog non trouvé"]), rows)
     ELSE IF done.code = "ok"
     THEN Out(Res(200, [message |-> "Blog mis à jour avec succès", blog |-> TheRow(done.row)]),
              done.rows)
     ELSE Out(ServerError, rows)

\* deleteBlog answering 200 without the delete
deleteBlogKeepsRow(rows, id) ==
  IF Len(id) = 0 THEN Out(Res(400, [error |-> "ID du blog requis"]), rows)
  ELSE IF FindUnique(rows, "id", id) = {}
  THEN Out(Res(404, [error |-> "Blog non trouvé"]), rows)
  ELSE Out(Res(200, [message |-> "Blog supprimé avec succès"]), rows)

deleteBlog(rows, id) ==
  LET done == PrismaDelete(rows, id)
  IN IF Len(id) = 0 THEN Out(Res(400, [error |-> "ID du blog requis"]), rows)
     ELSE IF FindUnique(rows, "id", id) = {}
     THEN Out(Res(404, [error |-> "Blog non trouvé"]), rows)
     ELSE IF done.code = "ok"
     THEN Out(Res(200, [message |-> "Blog supprimé avec succès"]), done.rows)
     ELSE Out(ServerError, rows)

(***************************************************************************)
(* utilisateurController                                                   *)
(***************************************************************************)
UtilisateurWhere(query, withSearch) ==
  (IF withSearch /\ Truthy(query, "q")
   THEN [OR |-> << [email |-> [contains |-> query.q]],
                   [nom |-> [contains |-> query.q]],
                   [prenom |-> [contains |-> query.q]] >>]
   ELSE EmptyMap)
  @@ (IF Truthy(query, "role") THEN [role |-> [equals |-> query.role]] ELSE EmptyMap)
  @@ (IF Has(query, "newsletter")
      THEN [newsletter |-> [equals |-> (query.newsletter = TextTrue)]] ELSE EmptyMap)

getAllUtilisateurs(rows, query) ==
  ListPage(rows, UtilisateurWhere(query, FALSE), query, "createdAt desc", "utilisateurs",
           SelectUtilisateur)

searchUtilisateurs(rows, query) ==
  ListAll(rows, UtilisateurWhere(query, TRUE), "createdAt desc", "utilisateurs",
          SelectUtilisateur)

getUtilisateurById(rows, id) ==
  IF Len(id) = 0 THEN Out(Res(400, [error |-> "ID de l'utilisateur requis"]), rows)
  ELSE LET utilisateur == FindUnique(rows, "id", id)
       IN IF utilisateur = {} THEN Out(Res(404, [error |-> "Utilisateur non trouvé"]), rows)
          ELSE Out(Res(200, Select(TheRow(utilisateur), SelectUtilisateur)), rows)

createUtilisateur(rows, n, body, salt) ==
  LET v == Validate(utilisateurSchema, body)
      hashedPassword == BcryptHash(v.value.motDePasse, saltRounds, salt)
      made == PrismaCreate(rows, "utilisateur",
                           Merge(v.value, [motDePasse |-> hashedPassword]), n)
  IN IF v.details # << >> THEN Out(InvalidData(v.details), rows)
     ELSE IF FindUnique(rows, "email", v.value.email) # {}
     THEN Out(Res(400, [error |-> "Un utilisateur avec cet email existe déjà"]), rows)
     ELSE IF made.code = "ok"
     THEN Out(Res(201, [message |-> "Utilisateur créé avec succès",
                        utilisateur |-> Select(TheRow(made.row), SelectUtilisateur)]),
              made.rows)
     ELSE IF made.code = "P2002"
     THEN Out(Res(400, [error |-> "Un utilisateur avec cet email existe déjà"]), rows)
     ELSE Out(ServerError, rows)

\* updateUtilisateur with data: value, the password as supplied
updateUtilisateurNoHash(rows, id, body, salt) ==
  LET v == Validate(updateUtilisateurSchema, body)
      done == PrismaUpdate(rows, "utilisateur", id, v.value)
  IN IF Len(id) = 0 THEN Out(Res(400, [error |-> "ID de l'utilisateur requis"]), rows)
     ELSE IF v.details # << >> THEN Out(InvalidData(v.details), rows)
     ELSE IF FindUnique(rows, "id", id) = {}
     THEN Out(Res(404, [error |-> "Utilisateur non trouvé"]), rows)
     ELSE IF done.code = "ok"
     THEN Out(Res(200, [message |-> "Utilisateur mis à jour avec succès",
                        utilisateur |-> Select(TheRow(done.row), SelectUtilisateur)]),
              done.rows)
     ELSE Out(ServerError, rows)

updateUtilisateur(rows, id, body, salt) ==
  LET v == Validate(updateUtilisateurSchema, body)
      updateData ==
        IF Has(v.value, "motDePasse") /\ Len(v.value.motDePasse) > 0
        THEN Merge(v.value, [motDePasse |-> BcryptHash(v.value.motDePasse, saltRounds, salt)])
        ELSE v.value
      done == PrismaUpdate(rows, "utilisateur", id, updateData)
  IN IF Len(id) = 0 THEN Out(Res(400, [error |-> "ID de l'utilisateur requis"]), rows)
     ELSE IF v.details # << >> THEN Out(InvalidData(v.details), rows)
     ELSE IF FindUnique(rows, "id", id) = {}
     THEN Out(Res(404, [error |-> "Utilisateur non trouvé"]), rows)
     ELSE IF done.code = "ok"
     THEN Out(Res(200, [message |-> "Utilisateur mis à jour avec succès",
                        utilisateur |-> Select(TheRow(done.row), SelectUtilisateur)]),
              done.rows)
     ELSE Out(ServerError, rows)

deleteUtilisateur(rows, id) ==
  LET done == PrismaDelete(rows, id)
  IN IF Len(id) = 0 THEN Out(Res(400, [error |-> "ID de l'utilisateur requis"]), rows)
     ELSE IF FindUnique(rows, "id", id) = {}
     THEN Out(Res(404, [error |-> "Utilisateur non trouvé"]), rows)
     ELSE IF done.code = "ok"
     THEN Out(Res(200, [message |-> "Utilisateur supprimé avec succès"]), done.rows)
     ELSE Out(ServerError, rows)

\* const { email, motDePasse } = req.body, without a schema
\* login with the unknown e-mail answered by a message of its own
loginUnknownEmail404(rows, body) ==
  LET utilisateur == FindUnique(rows, "email", body.email)
  IN IF ~(Truthy(body, "email") /\ Truthy(body, "motDePasse"))
     THEN Out(Res(400, [error |-> "Email et mot de passe requis"]), rows)
     ELSE IF utilisateur = {}
     THEN Out(Res(404, [error |-> "Utilisateur non trouvé"]), rows)
     ELSE IF ~BcryptCompare(body.motDePasse, TheRow(utilisateur).motDePasse)
     THEN Out(Res(401, [error |-> "Email ou mot de passe incorrect"]), rows)
     ELSE Out(Res(200, [message |-> "Connexion réussie",
                        utilisateur |-> Without(TheRow(utilisateur), {"motDePasse"})]), rows)

\* login testing if (!email) alone
loginEmailOnly(rows, body) ==
  LET utilisateur == FindUnique(rows, "email", body.email)
  IN IF ~Truthy(body, "email")
     THEN Out(Res(400, [error |-> "Email et mot de passe requis"]), rows)
     ELSE IF utilisateur = {}
     THEN Out(Res(401, [error |-> "Email ou mot de passe incorrect"]), rows)
     ELSE IF ~(Has(body, "motDePasse")
               /\ BcryptCompare(body.motDePasse, TheRow(utilisateur).motDePasse))
     THEN Out(Res(401, [error |-> "Email ou mot de passe incorrect"]), rows)
     ELSE Out(Res(200, [message |-> "Connexion réussie",
                        utilisateur |-> Without(TheRow(utilisateur), {"motDePasse"})]), rows)

login(rows, body) ==
  LET utilisateur == FindUnique(rows, "email", body.email)
  IN IF ~(Truthy(body, "email") /\ Truthy(body, "motDePasse"))
     THEN Out(Res(400, [error |-> "Email et mot de passe requis"]), rows)
     ELSE IF utilisateur = {}
     THEN Out(Res(401, [error |-> "Email ou mot de passe incorrect"]), rows)
     ELSE IF ~BcryptCompare(body.motDePasse, TheRow(utilisateur).motDePasse)
     THEN Out(Res(401, [error |-> "Email ou mot de passe incorrect"]), rows)
     ELSE Out(Res(200, [message |-> "Connexion réussie",
                        utilisateur |-> Without(TheRow(utilisateur), {"motDePasse"})]), rows)

(***************************************************************************)
(* middleware/errorHandler                                                 *)
(*                                                                         *)
(* An error object is a function from its properties to their values;      *)
(* message and stack are always there, as on every Error.                  *)
(***************************************************************************)
\* errorHandler with the store code tested before err.isJoi
errorHandlerCodeFirst(e, nodeEnv) ==
  IF Has(e, "code") /\ e.code # ""
  THEN CASE e.code = "P2002" ->
              Res(400, [error |-> "Conflit de données",
                        message |-> "Une ressource avec ces données existe déjà"])
         [] e.code = "P2025" ->
              Res(404, [error |-> "Ressource non trouvée",
                        message |-> "La ressource demandée n'existe pas"])
         [] e.code = "P2003" ->
              Res(400, [error |-> "Violation de contrainte",
                        message |-> "Impossible de supprimer cette ressource car elle est référencée ailleurs"])
         [] OTHER ->
              Res(500, [error |-> "Erreur base de données",
                        message |-> "Une erreur est survenue lors de l'accès aux données"])
  ELSE IF Has(e, "isJoi") /\ e.isJoi
  THEN Res(400, [error |-> "Données invalides",
                 details |-> [i \in 1..Len(e.details) |-> e.details[i].message]])
  ELSE IF e.name = "ValidationError"
  THEN Res(400, [error |-> "Erreur de validation", message |-> e.message])
  ELSE IF e.name = "UnauthorizedError"
  THEN Res(401, [error |-> "Non autorisé",
                 message |-> "Token d'authentification invalide ou manquant"])
  ELSE IF Has(e, "status") /\ e.status = 429
  THEN Res(429, [error |-> "Trop de requêtes",
                 message |-> "Vous avez dépassé la limite de requêtes autorisées"])
  ELSE Res(IF Has(e, "statusCode") /\ e.statusCode # 0 THEN e.statusCode ELSE 500,
           [error |-> "Erreur serveur",
            message |-> IF nodeEnv = "production" THEN "Une erreur est survenue"
                        ELSE IF e.message # "" THEN e.message ELSE "Erreur serveur interne"]
           @@ (IF nodeEnv = "development" THEN [stack |-> e.stack] ELSE EmptyMap))

\* errorHandler with the message of the default branch sent in every mode
errorHandlerMessageAlways(e, nodeEnv) ==
  IF Has(e, "isJoi") /\ e.isJoi
  THEN Res(400, [error |-> "Données invalides",
                 details |-> [i \in 1..Len(e.details) |-> e.details[i].message]])
  ELSE IF Has(e, "code") /\ e.code # ""
  THEN CASE e.code = "P2002" ->
              Res(400, [error |-> "Conflit de données",
                        message |-> "Une ressource avec ces données existe déjà"])
         [] e.code = "P2025" ->
              Res(404, [error |-> "Ressource non trouvée",
                        message |-> "La ressource demandée n'existe pas"])
         [] e.code = "P2003" ->
              Res(400, [error |-> "Violation de contrainte",
                        message |-> "Impossible de supprimer cette ressource car elle est référencée ailleurs"])
         [] OTHER ->
              Res(500, [error |-> "Erreur base de données",
                        message |-> "Une erreur est survenue lors de l'accès aux données"])
  ELSE IF e.name = "ValidationError"
  THEN Res(400, [error |-> "Erreur de validation", message |-> e.message])
  ELSE IF e.name = "UnauthorizedError"
  THEN Res(401, [error |-> "Non autorisé",
                 message |-> "Token d'authentification invalide ou manquant"])
  ELSE IF Has(e, "status") /\ e.status = 429
  THEN Res(429, [error |-> "Trop de requêtes",
                 message |-> "Vous avez dépassé la limite de requêtes autorisées"])
  ELSE Res(IF Has(e, "statusCode") /\ e.statusCode # 0 THEN e.statusCode ELSE 500,
           [error |-> "Erreur serveur",
            message |-> IF e.message # "" THEN e.message ELSE "Erreur serveur interne"]
           @@ (IF nodeEnv = "development" THEN [stack |-> e.stack] ELSE EmptyMap))

\* const errorHandler = (err, req, res, next) => { ... }, with
\* process.env.NODE_ENV as nodeEnv
errorHandler(e, nodeEnv) ==
  IF Has(e, "isJoi") /\ e.isJoi
  THEN Res(400, [error |-> "Données invalides",
                 details |-> [i \in 1..Len(e.details) |-> e.details[i].message]])
  ELSE IF Has(e, "code") /\ e.code # ""
  THEN CASE e.code = "P2002" ->
              Res(400, [error |-> "Conflit de données",
                        message |-> "Une ressource avec ces données existe déjà"])
         [] e.code = "P2025" ->
              Res(404, [error |-> "Ressource non trouvée",
                        message |-> "La ressource demandée n'existe pas"])
         [] e.code = "P2003" ->
              Res(400, [error |-> "Violation de contrainte",
                        message |-> "Impossible de supprimer cette ressource car elle est référencée ailleurs"])
         [] OTHER ->
              Res(500, [error |-> "Erreur base de données",
                        message |-> "Une erreur est survenue lors de l'accès aux données"])
  ELSE IF e.name = "ValidationError"
  THEN Res(400, [error |-> "Erreur de validation", message |-> e.message])
  ELSE IF e.name = "UnauthorizedError"
  THEN Res(401, [error |-> "Non autorisé",
                 message |-> "Token d'authentification invalide ou manquant"])
  ELSE IF Has(e, "status") /\ e.status = 429
  THEN Res(429, [error |-> "Trop de requêtes",
                 message |-> "Vous avez dépassé la limite de requêtes autorisées"])
  ELSE Res(IF Has(e, "statusCode") /\ e.statusCode # 0 THEN e.statusCode ELSE 500,
           [error |-> "Erreur serveur",
            message |-> IF nodeEnv = "production" THEN "Une erreur est survenue"
                        ELSE IF e.message # "" THEN e.message ELSE "Erreur serveur interne"]
           @@ (IF nodeEnv = "development" THEN [stack |-> e.stack] ELSE EmptyMap))

(***************************************************************************)
(* The requests of the model                                               *)
(***************************************************************************)
\* the identifiers a request may carry: every one the store may give, and one
\* it never gives
NoSuchId == <<"x">>

IdSamples == {NewId(n) : n \in 1..MaxCreates} \cup {NoSuchId}

\* the payloads and query strings of the requests, per router: creates and
\* updates are the valid payloads, invalidCreates and invalidUpdates the ones
\* that break a rule of the schema, queries the query strings of the list
\* route, searches those of the search route
Requests ==
  LET Miel == <<"M", "i", "e", "l">>
      Aloe == <<"A", "l", "o", "e">>
      EmailA == <<"a", "@", "b", ".", "f", "r">>
      EmailB == <<"c", "@", "d", ".", "f", "r">>
      EmailBad == <<"a", "b", ".", "f", "r">>
      PwdA == Rep(8, "p")
      PwdB == Rep(8, "w")
      \* page and limit as they arrive in the query string
      PageQueries ==
        { EmptyMap,
          [page |-> <<"2">>, limit |-> <<"1">>],
          [limit |-> <<"0">>],
          [limit |-> <<"-", "1">>],
          [page |-> <<"0">>],
          [limit |-> <<"a", "b", "c">>] }
      ProduitBase ==
        [nom |-> <<"S", "a", "v", "o", "n">>, description |-> Rep(10, "d"), prix |-> 8900,
         categorie |-> "savon", stock |-> Num(15)]
      ProduitFull ==
        [nom |-> <<"L", "a", "i", "t">>, description |-> Rep(10, "d"), prix |-> 8907,
         categorie |-> "crème", stock |-> Num(3), yukaScore |-> Num(95),
         ingredientIds |-> "[1]", actif |-> FALSE]
      BlogBase == [titre |-> Rep(5, "t"), contenu |-> Rep(50, "c"), categorie |-> "DIY"]
      BlogFull ==
        [titre |-> Rep(6, "t"), contenu |-> Rep(50, "c"), categorie |-> "santé",
         auteur |-> "Marie Dubois", tags |-> <<"[", "1", "]">>, produitIds |-> "[2]",
         publie |-> FALSE]
  IN [produits |->
        [creates |-> {ProduitBase, ProduitFull},
         invalidCreates |->
           { Without(ProduitBase, {"nom"}),
             Merge(ProduitBase, [prix |-> -5000]),
             Merge(ProduitBase, [categorie |-> "parfum"]),
             Merge(ProduitBase, [description |-> Rep(9, "d")]) },
         updates |-> { [prix |-> 15907, stock |-> Num(20)], [actif |-> FALSE], [actif |-> TRUE] },
         invalidUpdates |-> { [prix |-> -5000, categorie |-> "parfum"], [yukaScore |-> Num(101)] },
         queries |->
           PageQueries \cup { [yukaMin |-> <<"9", "5">>], [categorie |-> "savon"],
                              [prixMax |-> <<"8", ".", "9">>] },
         searches |->
           { EmptyMap, [q |-> <<"a", "v">>], [prixMin |-> <<"8", ".", "9", "1">>],
             [prixMin |-> <<"8", ".", "9">>, prixMax |-> <<"8", ".", "9">>] }],
      ingredients |->
        [creates |->
           { [nom |-> Miel],
             [nom |-> Aloe, origine |-> "Maroc", bio |-> TRUE, allergene |-> TRUE],
             [nom |-> Miel, origine |-> "Maroc"] },
         invalidCreates |-> { [origine |-> "Maroc"], [nom |-> <<"M">>], [nom |-> Rep(101, "x")] },
         updates |-> { [bio |-> TRUE], [nom |-> Aloe] },
         invalidUpdates |-> { [nom |-> <<"M">>] },
         queries |->
           PageQueries \cup { [bio |-> TextTrue], [allergene |-> <<"f", "a", "l", "s", "e">>],
                              [bio |-> <<"1">>], [origine |-> "Maroc"] },
         searches |-> { EmptyMap, [q |-> <<"i", "e">>], [bio |-> TextTrue] }],
      blogs |->
        [creates |-> {BlogBase, BlogFull},
         invalidCreates |->
           { Without(BlogBase, {"titre"}),
             Merge(BlogBase, [contenu |-> Rep(49, "c")]),
             Merge(BlogBase, [categorie |-> "mode"]) },
         updates |-> { [publie |-> FALSE], [auteur |-> "Marie Dubois"] },
         invalidUpdates |-> { [titre |-> Rep(4, "t")] },
         queries |-> PageQueries \cup { [publie |-> TextTrue], [auteur |-> "Marie Dubois"] },
         searches |-> { EmptyMap, [q |-> Rep(6, "t")], [categorie |-> "santé"] }],
      utilisateurs |->
        [creates |->
           { [email |-> EmailA, motDePasse |-> PwdA],
             [email |-> EmailB, motDePasse |-> PwdB, nom |-> <<"D", "u">>, role |-> "ADMIN",
              newsletter |-> TRUE] },
         invalidCreates |->
           { [motDePasse |-> PwdA],
             [email |-> EmailBad, motDePasse |-> PwdA],
             [email |-> EmailA, motDePasse |-> Rep(7, "p")],
             [email |-> EmailA, motDePasse |-> PwdA, role |-> "ROOT"] },
         updates |-> { [newsletter |-> TRUE], [motDePasse |-> PwdB], [email |-> EmailB] },
         invalidUpdates |-> { [email |-> EmailBad] },
         queries |-> PageQueries \cup { [newsletter |-> TextTrue], [role |-> "ADMIN"] },
         searches |-> { EmptyMap, [q |-> <<"@", "b">>], [newsletter |-> TextTrue] },
         logins |->
           { [email |-> EmailA, motDePasse |-> PwdA],
             [email |-> EmailA, motDePasse |-> PwdB],
             [email |-> EmailB, motDePasse |-> PwdA],
             [email |-> EmailA],
             [email |-> << >>, motDePasse |-> PwdA],
             [motDePasse |-> PwdA] }]]

\* the payloads a POST and a PUT of the mounted router may carry: the valid
\* ones, the invalid ones, and the valid ones with a key no schema names
Creates ==
  Requests[router].creates \cup Requests[router].invalidCreates
    \cup {Merge(b, [couleur |-> "rouge"]) : b \in Requests[router].creates}

Updates ==
  Requests[router].updates \cup Requests[router].invalidUpdates
    \cup {Merge(b, [couleur |-> "rouge"]) : b \in Requests[router].updates}

(***************************************************************************)
(* State and steps                                                         *)
(*                                                                         *)
(* router   the resource router the application mounts                     *)
(* db       the tables of the store                                        *)
(* clock    the number of rows created so far                              *)
(* req      the request handled last                                       *)
(* response the response sent for it                                       *)
(* env      process.env.NODE_ENV                                           *)
(* err      the error handed last to the error middleware                  *)
(* hits     the requests of the client that the limiter's store has        *)
(*          counted in the current window                                  *)
(* pace     how the client sends: "spaced", with more than a window        *)
(*          between two requests, or "burst", within the windows that      *)
(*          WindowReset ends                                               *)
(* pending  the requests whose store calls run as steps of their own: the  *)
(*          list of SpecConcurrent, or the calls of the clients of SpecRace *)
(***************************************************************************)
Routers == {"produits", "ingredients", "blogs", "utilisateurs"}

NoRequest == [handler |-> "none", id |-> << >>, query |-> EmptyMap, body |-> EmptyMap]

Request(handler, id, query, body) ==
  [handler |-> handler, id |-> id, query |-> query, body |-> body]

\* an error object that no middleware has raised
NoError == EmptyMap

\* the list request in flight, when its two queries are steps of their own:
\* how it runs them, its query string, the states of its table since it
\* began, then what findMany and count returned, then its response
NoPending == EmptyMap

InFlight == Has(pending, "hist") /\ ~Has(pending, "response")

Init ==
  /\ router \in Routers
  /\ db = [t \in Tables |-> {}]
  /\ clock = 0
  /\ req = NoRequest
  /\ response = Res(0, EmptyMap)
  /\ env = "test"
  /\ err = NoError
  /\ hits = 0
  /\ pace = "spaced"
  /\ pending = NoPending

\* const limiter = rateLimit({ windowMs, max: 100, message })
max == 100

TooManyRequests == Res(429, [error |-> "Trop de requêtes, veuillez réessayer plus tard"])

\* the limiter's count for this request: the store's count of the window plus
\* one; a spaced client finds the window of its last request over
Counted == (IF pace = "spaced" THEN 0 ELSE hits) + 1

\* router.use(limiter) placed after the routes, where no request reaches it
HandledBeforeLimiter(r, t, out) ==
  /\ (out.response.status = 201) => clock < MaxCreates
  /\ req' = r
  /\ response' = out.response
  /\ db' = [db EXCEPT ![t] = out.rows]
  /\ clock' = IF out.response.status = 201 THEN clock + 1 ELSE clock
  /\ hits' = IF Counted <= max + 1 THEN Counted ELSE hits
  /\ UNCHANGED <<router, env, err, pace, pending>>

\* router.use(limiter), then the route: the limiter answers 429 once the
\* client's count passes max; otherwise the controller runs on table t and
\* answers, and a create that stored a row advances the clock.  Past max + 1
\* the count no longer matters and is left there.  A list in flight sees the
\* table change.
Handled(r, t, out) ==
  /\ (Counted <= max /\ out.response.status = 201) => clock < MaxCreates
  /\ req' = r
  /\ response' = IF Counted <= max THEN out.response ELSE TooManyRequests
  /\ db' = IF Counted <= max THEN [db EXCEPT ![t] = out.rows] ELSE db
  /\ clock' = IF Counted <= max /\ out.response.status = 201 THEN clock + 1 ELSE clock
  /\ hits' = IF Counted <= max + 1 THEN Counted ELSE hits
  /\ pending' = IF InFlight
                THEN [pending EXCEPT !.hist = IF db'[t] = @[Len(@)] THEN @ ELSE Append(@, db'[t])]
                ELSE NoPending
  /\ UNCHANGED <<router, env, err, pace>>

\* router.get('/', produitController.getAllProduits) and the routes after it
GET_produits ==
  /\ router = "produits"
  /\ \E q \in Requests[router].queries :
       Handled(Request("getAllProduits", << >>, q, EmptyMap), "produit",
               getAllProduits(db.produit, q))

GET_produits_search ==
  /\ router = "produits"
  /\ \E q \in Requests[router].searches :
       Handled(Request("searchProduits", << >>, q, EmptyMap), "produit",
               searchProduits(db.produit, q))

GET_produits_id ==
  /\ router = "produits"
  /\ \E id \in IdSamples :
       Handled(Request("getProduitById", id, EmptyMap, EmptyMap), "produit",
               getProduitById(db.produit, id))

POST_produits ==
  /\ router = "produits"
  /\ \E body \in Creates :
       Handled(Request("createProduit", << >>, EmptyMap, body), "produit",
               createProduit(db.produit, clock + 1, body))

PUT_produits_id ==
  /\ router = "produits"
  /\ \E id \in IdSamples, body \in Updates :
       Handled(Request("updateProduit", id, EmptyMap, body), "produit",
               updateProduit(db.produit, id, body))

DELETE_produits_id ==
  /\ router = "produits"
  /\ \E id \in IdSamples :
       Handled(Request("deleteProduit", id, EmptyMap, EmptyMap), "produit",
               deleteProduit(db.produit, id))

GET_ingredients ==
  /\ router = "ingredients"
  /\ \E q \in Requests[router].queries :
       Handled(Request("getAllIngredients", << >>, q, EmptyMap), "ingredient",
               getAllIngredients(db.ingredient, q))

GET_ingredients_search ==
  /\ router = "ingredients"
  /\ \E q \in Requests[router].searches :
       Handled(Request("searchIngredients", << >>, q, EmptyMap), "ingredient",
               searchIngredients(db.ingredient, q))

GET_ingredients_origine ==
  /\ router = "ingredients"
  /\ \E q \in {EmptyMap, [limit |-> <<"0">>]} :
       Handled(Request("getIngredientsByOrigin", "Maroc", q, EmptyMap), "ingredient",
               getIngredientsByOrigin(db.ingredient, "Maroc", q))

GET_ingredients_bio ==
  /\ router = "ingredients"
  /\ \E q \in {EmptyMap, [limit |-> <<"0">>]} :
       Handled(Request("getBioIngredients", << >>, q, EmptyMap), "ingredient",
               getBioIngredients(db.ingredient, q))

GET_ingredients_id ==
  /\ router = "ingredients"
  /\ \E id \in IdSamples :
       Handled(Request("getIngredientById", id, EmptyMap, EmptyMap), "ingredient",
               getIngredientById(db.ingredient, id))

POST_ingredients ==
  /\ router = "ingredients"
  /\ \E body \in Creates :
       Handled(Request("createIngredient", << >>, EmptyMap, body), "ingredient",
               createIngredient(db.ingredient, clock + 1, body))

PUT_ingredients_id ==
  /\ router = "ingredients"
  /\ \E id \in IdSamples, body \in Updates :
       Handled(Request("updateIngredient", id, EmptyMap, body), "ingredient",
               updateIngredient(db.ingredient, id, body))

DELETE_ingredients_id ==
  /\ router = "ingredients"
  /\ \E id \in IdSamples :
       Handled(Request("deleteIngredient", id, EmptyMap, EmptyMap), "ingredient",
               deleteIngredient(db.ingredient, id))

GET_blogs ==
  /\ router = "blogs"
  /\ \E q \in Requests[router].queries :
       Handled(Request("getAllBlogs", << >>, q, EmptyMap), "blog", getAllBlogs(db.blog, q))

GET_blogs_search ==
  /\ router = "blogs"
  /\ \E q \in Requests[router].searches :
       Handled(Request("searchBlogs", << >>, q, EmptyMap), "blog", searchBlogs(db.blog, q))

GET_blogs_categorie ==
  /\ router = "blogs"
  /\ \E q \in {EmptyMap, [limit |-> <<"0">>]} :
       Handled(Request("getBlogsByCategory", "DIY", q, EmptyMap), "blog",
               getBlogsByCategory(db.blog, "DIY", q))

GET_blogs_id ==
  /\ router = "blogs"
  /\ \E id \in IdSamples :
       Handled(Request("getBlogById", id, EmptyMap, EmptyMap), "blog",
               getBlogById(db.blog, id))

POST_blogs ==
  /\ router = "blogs"
  /\ \E body \in Creates :
       Handled(Request("createBlog", << >>, EmptyMap, body), "blog",
               createBlog(db.blog, clock + 1, body))

PUT_blogs_id ==
  /\ router = "blogs"
  /\ \E id \in IdSamples, body \in Updates :
       Handled(Request("updateBlog", id, EmptyMap, body), "blog",
               updateBlog(db.blog, id, body))

DELETE_blogs_id ==
  /\ router = "blogs"
  /\ \E id \in IdSamples :
       Handled(Request("deleteBlog", id, EmptyMap, EmptyMap), "blog",
               deleteBlog(db.blog, id))

GET_utilisateurs ==
  /\ router = "utilisateurs"
  /\ \E q \in Requests[router].queries :
       Handled(Request("getAllUtilisateurs", << >>, q, EmptyMap), "utilisateur",
               getAllUtilisateurs(db.utilisateur, q))

GET_utilisateurs_search ==
  /\ router = "utilisateurs"
  /\ \E q \in Requests[router].searches :
       Handled(Request("searchUtilisateurs", << >>, q, EmptyMap), "utilisateur",
               searchUtilisateurs(db.utilisateur, q))

GET_utilisateurs_id ==
  /\ router = "utilisateurs"
  /\ \E id \in IdSamples :
       Handled(Request("getUtilisateurById", id, EmptyMap, EmptyMap), "utilisateur",
               getUtilisateurById(db.utilisateur, id))

POST_utilisateurs ==
  /\ router = "utilisateurs"
  /\ \E body \in Creates, salt \in Salts :
       Handled(Request("createUtilisateur", << >>, EmptyMap, body), "utilisateur",
               createUtilisateur(db.utilisateur, clock + 1, body, salt))

POST_utilisateurs_login ==
  /\ router = "utilisateurs"
  /\ \E body \in Requests[router].logins :
       Handled(Request("login", << >>, EmptyMap, body), "utilisateur",
               login(db.utilisateur, body))

PUT_utilisateurs_id ==
  /\ router = "utilisateurs"
  /\ \E id \in IdSamples, body \in Updates, salt \in Salts :
       Handled(Request("updateUtilisateur", id, EmptyMap, body), "utilisateur",
               updateUtilisateur(db.utilisateur, id, body, salt))

DELETE_utilisateurs_id ==
  /\ router = "utilisateurs"
  /\ \E id \in IdSamples :
       Handled(Request("deleteUtilisateur", id, EmptyMap, EmptyMap), "utilisateur",
               deleteUtilisateur(db.utilisateur, id))

Next ==
  \/ GET_produits \/ GET_produits_search \/ GET_produits_id
  \/ POST_produits \/ PUT_produits_id \/ DELETE_produits_id
  \/ GET_ingredients \/ GET_ingredients_search \/ GET_ingredients_origine
  \/ GET_ingredients_bio \/ GET_ingredients_id
  \/ POST_ingredients \/ PUT_ingredients_id \/ DELETE_ingredients_id
  \/ GET_blogs \/ GET_blogs_search \/ GET_blogs_categorie \/ GET_blogs_id
  \/ POST_blogs \/ PUT_blogs_id \/ DELETE_blogs_id
  \/ GET_utilisateurs \/ GET_utilisateurs_search \/ GET_utilisateurs_id
  \/ POST_utilisateurs \/ POST_utilisateurs_login
  \/ PUT_utilisateurs_id \/ DELETE_utilisateurs_id

Spec == Init /\ [][Next]_vars

(***************************************************************************)
(* One client sending in bursts: its requests fall in the windows of the   *)
(* limiter, and windowMs after a window began the store forgets its count. *)
(* The behaviours start when the store has given all its ids and holds no  *)
(* row.                                                                    *)
(***************************************************************************)
InitLimiter ==
  /\ router \in Routers
  /\ db = [t \in Tables |-> {}]
  /\ clock = MaxCreates
  /\ req = NoRequest
  /\ response = Res(0, EmptyMap)
  /\ env = "test"
  /\ err = NoError
  /\ hits = 0
  /\ pace = "burst"
  /\ pending = NoPending

\* windowMs: 15 * 60 * 1000 has passed
WindowReset ==
  /\ pace = "burst"
  /\ hits' = 0
  /\ UNCHANGED <<router, db, clock, req, response, env, err, pace, pending>>

NextLimiter == Next \/ WindowReset

SpecLimiter == InitLimiter /\ [][NextLimiter]_vars

(***************************************************************************)
(* The read-by-id controllers called as functions, with any req.params.id, *)
(* the empty one included: the router itself never hands an empty id to a  *)
(* '/:id' route.                                                            *)
(***************************************************************************)
getById_call ==
  \E id \in IdSamples \cup {<< >>} :
    /\ req' = Request(CASE router = "produits" -> "getProduitById"
                         [] router = "ingredients" -> "getIngredientById"
                         [] router = "blogs" -> "getBlogById"
                         [] router = "utilisateurs" -> "getUtilisateurById",
                       id, EmptyMap, EmptyMap)
    /\ response' = (CASE router = "produits" -> getProduitById(db.produit, id)
                      [] router = "ingredients" -> getIngredientById(db.ingredient, id)
                      [] router = "blogs" -> getBlogById(db.blog, id)
                      [] router = "utilisateurs"
                           -> getUtilisateurById(db.utilisateur, id)).response
    /\ UNCHANGED <<router, db, clock, env, err, hits, pace, pending>>

NextControllers == Next \/ getById_call

SpecControllers == Init /\ [][NextControllers]_vars

(***************************************************************************)
(* getAllBlogs with its two queries as steps of their own, other requests  *)
(* creating and deleting blogs between them.  Promise.all sends both       *)
(* queries and the store runs them in either order; the two other ways     *)
(* await one query before they send the other.  The behaviours start when  *)
(* the store has one id left to give and holds no row.                     *)
(***************************************************************************)
InitConcurrent ==
  /\ router = "blogs"
  /\ db = [t \in Tables |-> {}]
  /\ clock = MaxCreates - 1
  /\ req = NoRequest
  /\ response = Res(0, EmptyMap)
  /\ env = "test"
  /\ err = NoError
  /\ hits = 0
  /\ pace = "spaced"
  /\ pending = NoPending

getAllBlogs_begin ==
  /\ ~InFlight
  /\ \E run \in {"Promise.all", "findMany, count", "count, findMany"},
        q \in {EmptyMap, [publie |-> TextTrue]} :
       pending' = [run |-> run, query |-> q, hist |-> <<db.blog>>]
  /\ hits' = Counted
  /\ UNCHANGED <<router, db, clock, req, response, env, err, pace>>

\* findMany sent without awaiting the count
prisma_blog_findMany_unordered ==
  /\ InFlight
  /\ ~Has(pending, "found")
  /\ pending' = pending @@ [found |->
         PrismaFindMany(db.blog, BlogWhere(pending.query),
                        JsSkip(PageOf(pending.query), LimitOf(pending.query)),
                        LimitOf(pending.query), "createdAt desc")]
  /\ UNCHANGED <<router, db, clock, req, response, env, err, hits, pace>>

prisma_blog_findMany ==
  /\ InFlight
  /\ ~Has(pending, "found")
  /\ pending.run = "count, findMany" => Has(pending, "total")
  /\ pending' = pending @@ [found |->
         PrismaFindMany(db.blog, BlogWhere(pending.query),
                        JsSkip(PageOf(pending.query), LimitOf(pending.query)),
                        LimitOf(pending.query), "createdAt desc")]
  /\ UNCHANGED <<router, db, clock, req, response, env, err, hits, pace>>

prisma_blog_count ==
  /\ InFlight
  /\ ~Has(pending, "total")
  /\ pending.run = "findMany, count" => Has(pending, "found")
  /\ pending' = pending @@ [total |-> PrismaCount(db.blog, BlogWhere(pending.query))]
  /\ UNCHANGED <<router, db, clock, req, response, env, err, hits, pace>>

getAllBlogs_json ==
  /\ InFlight
  /\ Has(pending, "found") /\ Has(pending, "total")
  /\ req' = Request("getAllBlogs", << >>, pending.query, EmptyMap)
  /\ response' = PageResponse(pending.found, pending.total, pending.query, "blogs", AllColumns)
  /\ pending' = pending @@ [response |-> response']
  /\ UNCHANGED <<router, db, clock, env, err, hits, pace>>

NextConcurrent ==
  \/ POST_blogs \/ DELETE_blogs_id
  \/ getAllBlogs_begin \/ prisma_blog_findMany \/ prisma_blog_count \/ getAllBlogs_json

SpecConcurrent == InitConcurrent /\ [][NextConcurrent]_vars

(***************************************************************************)
(* createIngredient, updateIngredient and deleteIngredient with each await *)
(* as a step of its own, for two clients whose requests interleave.        *)
(* pending[c] is the call of client c: its handler, id and payload, where  *)
(* it stands ("find" before its lookup, "write" before its create, update  *)
(* or delete, "done" once it returned), the number of responses it sent    *)
(* and the last of them; req and response are left to the requests that    *)
(* are handled in one step.                                                *)
(***************************************************************************)
\* the controller is entered: the id test and the validation run at once
ingredient_call ==
  /\ router = "ingredients"
  /\ \E c \in {"a", "b"}, id \in IdSamples \cup {<< >>},
        h \in {"createIngredient", "updateIngredient", "deleteIngredient"} :
       \E body \in (IF h = "createIngredient"
                     THEN {b \in Creates : DOMAIN b = {"nom"} /\ Len(b.nom) < 10}
                     ELSE IF h = "updateIngredient"
                     THEN {b \in Updates : DOMAIN b = {"nom"}}
                     ELSE {EmptyMap}) :
         LET v == Validate(IF h = "createIngredient" THEN ingredientSchema
                           ELSE updateIngredientSchema, body)
             noId == h # "createIngredient" /\ Len(id) = 0
             invalid == h # "deleteIngredient" /\ v.details # << >>
             r == Request(h, IF h = "createIngredient" THEN << >> ELSE id, EmptyMap, body)
         IN /\ h = "createIngredient" => id = NoSuchId
            /\ Has(pending, c) => pending[c].at = "done"
            /\ pending' = (c :> (r @@ [at |-> IF noId \/ invalid THEN "done" ELSE "find",
                                        sent |-> IF noId \/ invalid THEN 1 ELSE 0,
                                        response |->
                                          IF noId
                                          THEN Res(400, [error |-> "ID de l'ingrédient requis"])
                                          ELSE IF invalid THEN InvalidData(v.details)
                                          ELSE Res(0, EmptyMap)])) @@ pending
  /\ hits' = Counted
  /\ UNCHANGED <<router, db, clock, req, response, env, err, pace>>

\* the lookup that answers and goes on to the store call all the same
prisma_ingredient_find_thenGoesOn ==
  \E c \in DOMAIN pending :
    LET call == pending[c]
        found == IF call.handler = "createIngredient"
                 THEN FindFirst(db.ingredient, "nom",
                                Validate(ingredientSchema, call.body).value.nom)
                 ELSE FindUnique(db.ingredient, "id", call.id)
        answer == IF call.handler = "createIngredient"
                  THEN Res(400, [error |-> "Un ingrédient avec ce nom existe déjà"])
                  ELSE Res(404, [error |-> "Ingrédient non trouvé"])
        returns == (call.handler = "createIngredient") = (found # {})
    IN /\ call.at = "find"
       /\ pending' = [pending EXCEPT ![c] =
                        [call EXCEPT !.at = "write",
                                     !.sent = IF returns THEN @ + 1 ELSE @,
                                     !.response = IF returns THEN answer ELSE @]]
       /\ UNCHANGED <<router, db, clock, req, response, env, err, hits, pace>>

\* await prisma.ingredient.findFirst({ where: { nom } }) of a create, and
\* await prisma.ingredient.findUnique({ where: { id } }) of an update or a
\* delete: the call returns 400 or 404, or goes on to its store call
prisma_ingredient_find ==
  \E c \in DOMAIN pending :
    LET call == pending[c]
        found == IF call.handler = "createIngredient"
                 THEN FindFirst(db.ingredient, "nom",
                                Validate(ingredientSchema, call.body).value.nom)
                 ELSE FindUnique(db.ingredient, "id", call.id)
        answer == IF call.handler = "createIngredient"
                  THEN Res(400, [error |-> "Un ingrédient avec ce nom existe déjà"])
                  ELSE Res(404, [error |-> "Ingrédient non trouvé"])
        returns == (call.handler = "createIngredient") = (found # {})
    IN /\ call.at = "find"
       /\ pending' = [pending EXCEPT ![c] =
                        [call EXCEPT !.at = IF returns THEN "done" ELSE "write",
                                     !.sent = IF returns THEN @ + 1 ELSE @,
                                     !.response = IF returns THEN answer ELSE @]]
       /\ UNCHANGED <<router, db, clock, req, response, env, err, hits, pace>>

\* await prisma.ingredient.create / update / delete, then res.json; an error
\* of the store goes to the catch block, which answers 400 for P2002 in
\* createIngredient and 500 otherwise
prisma_ingredient_write ==
  \E c \in DOMAIN pending :
    LET call == pending[c]
        h == call.handler
        done == IF h = "createIngredient"
                THEN PrismaCreate(db.ingredient, "ingredient",
                                  Validate(ingredientSchema, call.body).value, clock + 1)
                ELSE IF h = "updateIngredient"
                THEN PrismaUpdate(db.ingredient, "ingredient", call.id,
                                  Validate(updateIngredientSchema, call.body).value)
                ELSE PrismaDelete(db.ingredient, call.id) @@ [row |-> {}]
        answer ==
          IF done.code = "ok"
          THEN (IF h = "createIngredient"
                THEN Res(201, [message |-> "Ingrédient créé avec succès",
                               ingredient |-> TheRow(done.row)])
                ELSE IF h = "updateIngredient"
                THEN Res(200, [message |-> "Ingrédient mis à jour avec succès",
                               ingredient |-> TheRow(done.row)])
                ELSE Res(200, [message |-> "Ingrédient supprimé avec succès"]))
          ELSE IF h = "createIngredient" /\ done.code = "P2002"
          THEN Res(400, [error |-> "Un ingrédient avec ce nom existe déjà"])
          ELSE ServerError
    IN /\ call.at = "write"
       /\ answer.status = 201 => clock < MaxCreates
       /\ db' = [db EXCEPT !.ingredient = done.rows]
       /\ clock' = IF answer.status = 201 THEN clock + 1 ELSE clock
       /\ pending' = [pending EXCEPT ![c] =
                        [call EXCEPT !.at = "done", !.sent = @ + 1, !.response = answer]]
       /\ UNCHANGED <<router, req, response, env, err, hits, pace>>

NextRace == ingredient_call \/ prisma_ingredient_find \/ prisma_ingredient_write

SpecRace == Init /\ [][NextRace]_vars

(***************************************************************************)
(* The routers on their own: which controller a method and a path reach.   *)
(* A path is the sequence of its segments below the mount point; a         *)
(* segment of a route is a literal or a parameter.                         *)
(***************************************************************************)
\* a router that prefers the route registered last among those that match
LastMatch(matching) == CHOOSE i \in matching : \A j \in matching : i >= j

\* Express tries the routes of a router in the order of their registration
FirstMatch(matching) == CHOOSE i \in matching : \A j \in matching : i <= j

\* the route of the mounted router that a request reaches: its controller and
\* the value of its parameter; "none" when no route matches and the request
\* falls through the router
Dispatch(method, path) ==
  LET lit(text) == <<"lit", text>>
      par(name) == <<"param", name>>
      routes ==
        CASE router = "produits" ->
               << <<"GET", << >>, "getAllProduits">>,
                  <<"GET", <<lit("search")>>, "searchProduits">>,
                  <<"GET", <<par("id")>>, "getProduitById">>,
                  <<"POST", << >>, "createProduit">>,
                  <<"PUT", <<par("id")>>, "updateProduit">>,
                  <<"DELETE", <<par("id")>>, "deleteProduit">> >>
          [] router = "ingredients" ->
               << <<"GET", << >>, "getAllIngredients">>,
                  <<"GET", <<lit("search")>>, "searchIngredients">>,
                  <<"GET", <<lit("origine"), par("origine")>>, "getIngredientsByOrigin">>,
                  <<"GET", <<lit("bio")>>, "getBioIngredients">>,
                  <<"GET", <<par("id")>>, "getIngredientById">>,
                  <<"POST", << >>, "createIngredient">>,
                  <<"PUT", <<par("id")>>, "updateIngredient">>,
                  <<"DELETE", <<par("id")>>, "deleteIngredient">> >>
          [] router = "blogs" ->
               << <<"GET", << >>, "getAllBlogs">>,
                  <<"GET", <<lit("search")>>, "searchBlogs">>,
                  <<"GET", <<lit("categorie"), par("categorie")>>, "getBlogsByCategory">>,
                  <<"GET", <<par("id")>>, "getBlogById">>,
                  <<"POST", << >>, "createBlog">>,
                  <<"PUT", <<par("id")>>, "updateBlog">>,
                  <<"DELETE", <<par("id")>>, "deleteBlog">> >>
          [] router = "utilisateurs" ->
               << <<"GET", << >>, "getAllUtilisateurs">>,
                  <<"GET", <<lit("search")>>, "searchUtilisateurs">>,
                  <<"GET", <<par("id")>>, "getUtilisateurById">>,
                  <<"POST", << >>, "createUtilisateur">>,
                  <<"POST", <<lit("login")>>, "login">>,
                  <<"PUT", <<par("id")>>, "updateUtilisateur">>,
                  <<"DELETE", <<par("id")>>, "deleteUtilisateur">> >>
      matches(route) ==
        /\ route[1] = method
        /\ Len(route[2]) = Len(path)
        /\ \A i \in 1..Len(path) : route[2][i][1] = "lit" => route[2][i][2] = path[i]
      matching == {i \in 1..Len(routes) : matches(routes[i])}
      route == routes[FirstMatch(matching)]
      params == {i \in 1..Len(path) : route[2][i][1] = "param"}
  IN IF matching = {} THEN [handler |-> "none", id |-> << >>]
     ELSE [handler |-> route[3],
           id |-> IF params = {} THEN << >> ELSE path[CHOOSE i \in params : TRUE]]

\* router.handle: the limiter, then the first route that matches hands the
\* request, with the parameter of its path, to its controller
router_handle ==
  \E method \in {"GET", "POST", "PUT", "DELETE"},
     path \in { << >>, <<"search">>, <<"bio">>, <<"login">>, <<"c1">>, <<"origine">>,
                <<"origine", "Maroc">>, <<"categorie", "DIY">>, <<"c1", "c2">> } :
    LET route == Dispatch(method, path)
    IN /\ req' = Request(IF Counted <= max THEN route.handler ELSE "limiter",
                         route.id, EmptyMap, EmptyMap)
                   @@ [method |-> method, path |-> path]
       /\ hits' = IF Counted <= max + 1 THEN Counted ELSE hits
       /\ UNCHANGED <<router, db, clock, response, env, err, pace, pending>>

SpecRoutes == Init /\ [][router_handle]_vars

(***************************************************************************)
(* The error middleware on its own: app.use(errorHandler) answers whatever *)
(* error a middleware or a route hands to next(err)                        *)
(***************************************************************************)
NodeEnvs == {"production", "development", "test"}

\* the error objects of the model: every combination of the properties the
\* handler reads
Errors ==
  LET opt(k, vals) == {EmptyMap} \cup {(k :> v) : v \in vals}
      joi == {EmptyMap, [isJoi |-> TRUE, details |-> << [message |-> "\"nom\" is required"] >>]}
  IN { j @@ c @@ st @@ sc @@ [name |-> n, message |-> m, stack |-> "Error: at app.js"] :
         j \in joi,
         c \in opt("code", {"", "P2002", "P2025", "P2003", "P2024", "ECONNRESET"}),
         st \in opt("status", {429, 400}),
         sc \in opt("statusCode", {400}),
         n \in {"Error", "ValidationError", "UnauthorizedError"},
         m \in {"", "boom"} }

InitErrors ==
  /\ router \in Routers
  /\ db = [t \in Tables |-> {}]
  /\ clock = 0
  /\ req = NoRequest
  /\ response = Res(0, EmptyMap)
  /\ env \in NodeEnvs
  /\ err = NoError
  /\ hits = 0
  /\ pace = "spaced"
  /\ pending = NoPending

\* app.use(errorHandler)
app_use_errorHandler ==
  \E e \in Errors :
    /\ err' = e
    /\ response' = errorHandler(e, env)
    /\ UNCHANGED <<router, db, clock, req, env, hits, pace, pending>>

NextErrors == app_use_errorHandler

SpecErrors == InitErrors /\ [][NextErrors]_vars

(***************************************************************************)
(* Properties                                                              *)
(*                                                                         *)
(* The properties below speak of the request handled last (req), of the    *)
(* response sent for it (response) and of the table of the mounted router  *)
(* before (db) and after (db') the request.                                *)
(***************************************************************************)
Table ==
  CASE router = "produits" -> "produit"
    [] router = "ingredients" -> "ingredient"
    [] router = "blogs" -> "blog"
    [] router = "utilisateurs" -> "utilisateur"

CreateHandlers == {"createProduit", "createIngredient", "createBlog", "createUtilisateur"}

ReadHandlers == {"getProduitById", "getIngredientById", "getBlogById", "getUtilisateurById"}

UpdateHandlers == {"updateProduit", "updateIngredient", "updateBlog", "updateUtilisateur"}

DeleteHandlers == {"deleteProduit", "deleteIngredient", "deleteBlog", "deleteUtilisateur"}

\* the field by which a resource is named: nom, titre or, for a user, email
NamedBy ==
  CASE router = "produits" -> "nom"
    [] router = "ingredients" -> "nom"
    [] router = "blogs" -> "titre"
    [] router = "utilisateurs" -> "email"

NotFoundMessage ==
  CASE router = "produits" -> "Produit non trouvé"
    [] router = "ingredients" -> "Ingrédient non trouvé"
    [] router = "blogs" -> "Blog non trouvé"
    [] router = "utilisateurs" -> "Utilisateur non trouvé"

\* the payloads of the model that break a rule of the create or update
\* schema, or carry a key it does not name
InvalidCreates == Requests[router].invalidCreates \cup {b \in Creates : Has(b, "couleur")}

InvalidUpdates == Requests[router].invalidUpdates \cup {b \in Updates : Has(b, "couleur")}

\* request r is a create whose name (or e-mail) is that of a stored record
NameTaken(r) ==
  /\ r.handler \in CreateHandlers
  /\ Has(r.body, NamedBy)
  /\ \E row \in db[Table] : row[NamedBy] = r.body[NamedBy]

\* request r names, by a non-empty id, a record the store does not hold
Missing(r) ==
  /\ r.handler \in ReadHandlers \cup UpdateHandlers \cup DeleteHandlers
  /\ Len(r.id) > 0
  /\ \A row \in db[Table] : row.id # r.id

C2_MissingIdIs404Always ==
  [][Missing(req')
       => (response' = Res(404, [error |-> NotFoundMessage]) /\ db' = db)]_vars

\* C2, amended: a read-by-id, a delete, or an update with a valid payload,
\* whose non-empty id matches no stored record, is answered 404 with the
\* resource's not-found message and leaves the store unchanged; an update
\* with an invalid payload is answered 400 "Données invalides" whether or not
\* the id exists, and leaves the store unchanged too.
C2_MissingIdIs404 ==
  [][Missing(req')
       => /\ db' = db
          /\ IF req'.handler \in UpdateHandlers /\ req'.body \in InvalidUpdates
             THEN response'.status = 400 /\ response'.body.error = "Données invalides"
             ELSE response' = Res(404, [error |-> NotFoundMessage])]_vars

\* an update with a valid payload named an id the store never gave
C2_Witness ==
  /\ req.handler = "updateProduit"
  /\ req.id = NoSuchId
  /\ req.body \notin InvalidUpdates
  /\ response = Res(404, [error |-> "Produit non trouvé"])

(***************************************************************************)
(* C3                                                                      *)
(***************************************************************************)
ListHandlers ==
  {"getAllProduits", "getAllIngredients", "getIngredientsByOrigin", "getBioIngredients",
   "getAllBlogs", "getBlogsByCategory", "getAllUtilisateurs"}

\* C3: whatever page and limit the query string of a list request carries,
\* the response reports pages = ceil(total / limit) and returns at most limit
\* records.
C3_Pagination ==
  req.handler \in ListHandlers
    => /\ response.status = 200
       /\ LET p == response.body.pagination
          IN /\ p.limit[1] = "num" /\ p.total[1] = "num" /\ p.pages[1] = "num"
             /\ p.limit[2] # 0
             /\ p.pages[2] * p.limit[2] >= p.total[2]
             /\ (p.pages[2] - 1) * p.limit[2] < p.total[2]
             /\ Len(response.body[router]) <= p.limit[2]

(***************************************************************************)
(* C4                                                                      *)
(***************************************************************************)
\* the login payloads that carry both fields and must fail on the stored users
UnknownEmail(body) == \A u \in db.utilisateur : u.email # body.email

WrongPassword(body) ==
  /\ Truthy(body, "email")
  /\ Truthy(body, "motDePasse")
  /\ \E u \in db.utilisateur :
       u.email = body.email /\ ~BcryptCompare(body.motDePasse, u.motDePasse)

FailingLogins ==
  {body \in Requests[router].logins : /\ Truthy(body, "email") /\ Truthy(body, "motDePasse")
                     /\ (UnknownEmail(body) \/ WrongPassword(body))}

\* C4: a login with a wrong password for an existing e-mail and a login with
\* an unknown e-mail get the same response, 401 with the body
\* { error: 'Email ou mot de passe incorrect' }; nothing tells the two apart.
C4_LoginFailuresAlike ==
  /\ (req.handler = "login" /\ req.body \in FailingLogins)
       => response = Res(401, [error |-> "Email ou mot de passe incorrect"])
  /\ router = "utilisateurs"
       => \A a, b \in FailingLogins :
            login(db.utilisateur, a).response = login(db.utilisateur, b).response

\* a stored e-mail was tried with a wrong password while another e-mail of
\* the model is unknown
C4_Witness ==
  /\ req.handler = "login"
  /\ WrongPassword(req.body)
  /\ response.status = 401
  /\ \E b \in FailingLogins : UnknownEmail(b)

(***************************************************************************)
(* C5                                                                      *)
(***************************************************************************)
\* the user records a response body carries, alone or in a list
UsersIn(body) ==
  (IF Has(body, "email") THEN {body} ELSE {})
  \cup (IF Has(body, "utilisateur") THEN {body.utilisateur} ELSE {})
  \cup (IF Has(body, "utilisateurs")
        THEN {body.utilisateurs[i] : i \in 1..Len(body.utilisateurs)} ELSE {})

\* C5: no response of the user router (create, read, list, search, update,
\* login) carries the motDePasse field, hashed or not.
C5_NoPasswordInResponse ==
  router = "utilisateurs"
    => /\ ~Has(response.body, "motDePasse")
       /\ \A u \in UsersIn(response.body) : ~Has(u, "motDePasse")

\* a successful login returned the stored user
C5_Witness ==
  /\ req.handler = "login"
  /\ response.status = 200
  /\ \E u \in db.utilisateur : u.email = response.body.utilisateur.email /\ Has(u, "motDePasse")

(***************************************************************************)
(* C6                                                                      *)
(***************************************************************************)
\* the defaults the specification lists for a create
ExpectedDefaults ==
  CASE router = "produits" ->
         [actif |-> TRUE, ingredientIds |-> "[]", bienfaits |-> "[]", quantiteIds |-> "[]",
          blogIds |-> "[]"]
    [] router = "ingredients" -> [bio |-> FALSE, allergene |-> FALSE]
    [] router = "blogs" ->
         [auteur |-> "Équipe Cynova", produitIds |-> "[]", tags |-> <<"[", "]">>,
          publie |-> TRUE]
    [] router = "utilisateurs" -> [role |-> "USER", newsletter |-> FALSE]

\* the key of the record in the body of a create or update response
RecordKey ==
  CASE router = "produits" -> "produit"
    [] router = "ingredients" -> "ingredient"
    [] router = "blogs" -> "blog"
    [] router = "utilisateurs" -> "utilisateur"

\* C6: a record created from a payload that omits an optional field with a
\* default holds that default (ingredient bio and allergene false; product
\* actif true and ingredientIds, bienfaits, quantiteIds, blogIds '[]'; blog
\* auteur 'Équipe Cynova', produitIds and tags '[]', publie true; user role
\* 'USER' and newsletter false), and a supplied value is kept as supplied.
C6_DefaultsOnCreate ==
  (req.handler \in CreateHandlers /\ response.status = 201)
    => LET made == response.body[RecordKey]
           stored == CHOOSE row \in db[Table] : row.id = made.id
       IN \A k \in DOMAIN ExpectedDefaults :
            /\ Has(made, k) /\ Has(stored, k)
            /\ made[k] = stored[k]
            /\ made[k] = IF Has(req.body, k) THEN req.body[k] ELSE ExpectedDefaults[k]

\* an ingredient was created from its name alone
C6_Witness ==
  /\ req.handler = "createIngredient"
  /\ response.status = 201
  /\ DOMAIN req.body = {"nom"}
  /\ response.body.ingredient.bio = FALSE

(***************************************************************************)
(* C7                                                                      *)
(***************************************************************************)
\* the payload of the create handled last, with the defaults of its absent
\* fields
Sent == Merge(ExpectedDefaults, req.body)

StoreManaged == {"id", "createdAt", "updatedAt"}

\* a price rounded to two decimals, in thousandths
RoundCents(v) == ((v + 5) \div 10) * 10

\* a create answered 201 is followed by the read of the id it returned
ReadsBack ==
  /\ req.handler \in CreateHandlers
  /\ response.status = 201
  /\ req'.handler \in ReadHandlers
  /\ req'.id = response.body[RecordKey].id

\* C7, as the specification states it: reading a record by the id its create
\* returned gives back exactly the fields of the validated payload (defaults
\* applied), the id and the timestamps aside.
C7_RoundTripIdentical ==
  [][ReadsBack
       => /\ response'.status = 200
          /\ (DOMAIN response'.body) \ StoreManaged = DOMAIN Sent
          /\ \A k \in DOMAIN Sent : response'.body[k] = Sent[k]]_vars

\* C7, amended: reading a record by the id its create returned gives back
\* the fields of the validated payload (defaults applied) with their values,
\* the id and the timestamps aside, except that a product's prix comes back
\* rounded to two decimals and that a user's motDePasse does not come back.
C7_RoundTrip ==
  [][ReadsBack
       => /\ response'.status = 200
          /\ (DOMAIN response'.body) \ StoreManaged = (DOMAIN Sent) \ {"motDePasse"}
          /\ \A k \in (DOMAIN Sent) \ {"motDePasse"} :
               response'.body[k] = IF k = "prix" THEN RoundCents(Sent[k]) ELSE Sent[k]]_vars

\* the product created with the price 8.907 was read back
C7_Witness ==
  /\ req.handler = "getProduitById"
  /\ response.status = 200
  /\ response.body.nom = <<"L", "a", "i", "t">>
  /\ response.body.prix = 8910

(***************************************************************************)
(* C8                                                                      *)
(***************************************************************************)
\* the record of the given id in a table
RowOf(rows, id) == CHOOSE row \in rows : row.id = id

\* C8, as the specification states it: a successful update sets exactly the
\* fields of its payload to the supplied values, leaves every other field of
\* the record as it was, and leaves every other record as it was.
C8_UpdateSetsSupplied ==
  [][(req'.handler \in UpdateHandlers /\ response'.status = 200)
       => LET old == RowOf(db[Table], req'.id)
              new == RowOf(db'[Table], req'.id)
          IN /\ \A k \in DOMAIN req'.body : Has(new, k) /\ new[k] = req'.body[k]
             /\ \A k \in ((DOMAIN old) \cup (DOMAIN new)) \ (DOMAIN req'.body) :
                  Has(old, k) /\ Has(new, k) /\ old[k] = new[k]
             /\ db'[Table] \ {new} = db[Table] \ {old}]_vars

\* C8, amended: a successful update sets exactly the fields of its payload,
\* a prix to the supplied value rounded to two decimals, a motDePasse to a
\* bcrypt hash of the supplied value, any other field to the supplied value;
\* it leaves every other field of the record (store-managed timestamps
\* aside) and every other record as they were.
C8_UpdateExact ==
  [][(req'.handler \in UpdateHandlers /\ response'.status = 200)
       => LET old == RowOf(db[Table], req'.id)
              new == RowOf(db'[Table], req'.id)
          IN /\ \A k \in DOMAIN req'.body :
                  /\ Has(new, k)
                  /\ CASE k = "prix" -> new[k] = RoundCents(req'.body[k])
                       [] k = "motDePasse" ->
                            /\ new[k] # req'.body[k]
                            /\ BcryptCompare(req'.body[k], new[k])
                       [] OTHER -> new[k] = req'.body[k]
             /\ \A k \in ((DOMAIN old) \cup (DOMAIN new)) \ (DOMAIN req'.body) :
                  Has(old, k) /\ Has(new, k) /\ old[k] = new[k]
             /\ db'[Table] \ {new} = db[Table] \ {old}]_vars

\* one of two stored users was given a new password
C8_Witness ==
  /\ req.handler = "updateUtilisateur"
  /\ response.status = 200
  /\ Has(req.body, "motDePasse")
  /\ Cardinality(db.utilisateur) = 2

(***************************************************************************)
(* C9                                                                      *)
(***************************************************************************)
\* request r carries a payload that breaks its schema
InvalidPayload(r) ==
  \/ r.handler \in CreateHandlers /\ r.body \in InvalidCreates
  \/ r.handler \in UpdateHandlers /\ r.body \in InvalidUpdates

\* C9: a create or update whose payload breaks its schema (a required field
\* missing, a value out of range, an enum value not listed, a malformed
\* e-mail) is answered 400 with error 'Données invalides' and a non-empty
\* details list, and the store is not modified.
C9_InvalidPayloadRejected ==
  [][InvalidPayload(req')
       => /\ response'.status = 400
          /\ response'.body.error = "Données invalides"
          /\ Len(response'.body.details) > 0
          /\ db' = db]_vars

\* a user with a malformed e-mail was refused
C9_Witness ==
  /\ req.handler = "createUtilisateur"
  /\ Has(req.body, "email")
  /\ req.body.email = <<"a", "b", ".", "f", "r">>
  /\ response.status = 400
  /\ response.body.error = "Données invalides"

(***************************************************************************)
(* C10                                                                     *)
(***************************************************************************)
\* the store gave this id and holds it no more; rows leave a table through
\* a delete only
Deleted(id) ==
  /\ \E n \in 1..clock : id = NewId(n)
  /\ \A row \in db[Table] : row.id # id

\* a delete answered 200 removes the record of its id and no other
DeleteRemovesOne ==
  (req'.handler \in DeleteHandlers /\ response'.status = 200)
    => \E row \in db[Table] : row.id = req'.id /\ db'[Table] = db[Table] \ {row}

AfterDelete(r) ==
  /\ r.handler \in ReadHandlers \cup UpdateHandlers \cup DeleteHandlers
  /\ Deleted(r.id)

\* C10, as the specification states it: after a delete answered 200, every
\* later read-by-id, update or delete of that id is answered 404, and the
\* delete removed no other record.
C10_DeletedIs404Always ==
  [][/\ DeleteRemovesOne
     /\ AfterDelete(req') => (response'.status = 404 /\ db' = db)]_vars

\* C10, amended: after a delete answered 200, every later read-by-id, delete,
\* or update with a valid payload, of that id is answered 404 (an update with
\* an invalid payload is answered 400 "Données invalides"), and the delete
\* removed no other record.
C10_DeletedIs404 ==
  [][/\ DeleteRemovesOne
     /\ AfterDelete(req')
          => /\ db' = db
             /\ response'.status =
                  IF req'.handler \in UpdateHandlers /\ req'.body \in InvalidUpdates
                  THEN 400 ELSE 404]_vars

\* a deleted blog was asked for again, another blog still stored
C10_Witness ==
  /\ req.handler = "getBlogById"
  /\ Deleted(req.id)
  /\ response.status = 404
  /\ db.blog # {}

(***************************************************************************)
(* C11                                                                     *)
(***************************************************************************)
\* what the error handed last to the error middleware is
IsJoiError == Has(err, "isJoi") /\ err.isJoi

StoreCode == IF Has(err, "code") THEN err.code ELSE ""

NamedError == err.name \in {"ValidationError", "UnauthorizedError"}

\* C11: the error mapper answers a validation-library error with 400 and the
\* list of its messages, whatever else the error carries; otherwise a store
\* code P2002 with 400, P2025 with 404, P2003 with 400 and any other store
\* code with a generic 500, whatever name or status the error carries;
\* otherwise, past the name checks, an error of status 429 with 429.
C11_ErrorMapping ==
  err # NoError
    => /\ IsJoiError
            => /\ response.status = 400
               /\ Has(response.body, "details")
               /\ response.body.details =
                    [i \in 1..Len(err.details) |-> err.details[i].message]
       /\ (~IsJoiError /\ StoreCode = "P2002") => response.status = 400
       /\ (~IsJoiError /\ StoreCode = "P2025") => response.status = 404
       /\ (~IsJoiError /\ StoreCode = "P2003") => response.status = 400
       /\ (~IsJoiError /\ StoreCode \notin {"", "P2002", "P2025", "P2003"})
            => /\ response.status = 500
               /\ response.body.error = "Erreur base de données"
               /\ response.body.message # err.message
       /\ (~IsJoiError /\ StoreCode = "" /\ ~NamedError /\ Has(err, "status")
           /\ err.status = 429)
            => response.status = 429

\* a validation-library error that also carries a store code and the status
\* 429 was answered as a validation error
C11_Witness ==
  /\ err # NoError
  /\ IsJoiError /\ StoreCode = "P2025" /\ Has(err, "status") /\ err.status = 429
  /\ response.status = 400
  /\ Has(response.body, "details")

(***************************************************************************)
(* C12                                                                     *)
(***************************************************************************)
\* the error mapper recognises nothing in the error handed last
Unrecognised ==
  /\ err # NoError
  /\ ~IsJoiError /\ StoreCode = "" /\ ~NamedError
  /\ ~(Has(err, "status") /\ err.status = 429)

\* C12, as the specification states it: an error the mapper does not
\* recognise is answered 500, and its own message is in the body only when
\* the process is not in production mode.
C12_UnrecognisedIs500 ==
  Unrecognised
    => /\ response.status = 500
       /\ env = "production" => response.body.message # err.message

\* C12, amended: an error the mapper does not recognise is answered with the
\* error's own statusCode when it carries one, with 500 otherwise; the body's
\* message is 'Une erreur est survenue' in production mode and the error's
\* own message (or 'Erreur serveur interne' when that is empty) in any other
\* mode; the stack is in the body in development mode only.
C12_Unrecognised ==
  Unrecognised
    => /\ response.status = IF Has(err, "statusCode") THEN err.statusCode ELSE 500
       /\ response.body.error = "Erreur serveur"
       /\ response.body.message =
            IF env = "production" THEN "Une erreur est survenue"
            ELSE IF err.message = "" THEN "Erreur serveur interne" ELSE err.message
       /\ Has(response.body, "stack") <=> env = "development"

\* in production mode an unrecognised error with a statusCode of its own was
\* answered with that status and without its message
C12_Witness ==
  /\ Unrecognised
  /\ env = "production"
  /\ Has(err, "statusCode") /\ err.message = "boom"
  /\ response.status = 400
  /\ response.body.message = "Une erreur est survenue"

(***************************************************************************)
(* C13                                                                     *)
(***************************************************************************)
\* C13: in one window the limiter lets the first 100 requests of the client
\* through to a controller and no more; every further request of the window,
\* on whatever route, is answered 429 with the error 'Trop de requêtes,
\* veuillez réessayer plus tard' and never reaches the store.
C13_RateLimit ==
  [][/\ hits' # hits => (hits' = hits + 1 \/ hits' = 0)
     /\ (hits' # 0 /\ hits >= 100)
          => /\ response' =
                  Res(429, [error |-> "Trop de requêtes, veuillez réessayer plus tard"])
             /\ db' = db /\ clock' = clock
     /\ (hits' = hits + 1 /\ hits < 100) => response'.status # 429]_vars

\* the 101st request of a window, a delete, was refused
C13_Witness ==
  /\ hits = 101
  /\ req.handler \in DeleteHandlers
  /\ response.status = 429

(***************************************************************************)
(* C14                                                                     *)
(***************************************************************************)
\* a login payload carries both inputs, neither empty
BothPresent(body) ==
  /\ Has(body, "email") /\ body.email # << >>
  /\ Has(body, "motDePasse") /\ body.motDePasse # << >>

\* C14: a login in which email or motDePasse is absent or empty is answered
\* 400 'Email et mot de passe requis' whatever the store holds, so without a
\* lookup; 401 is answered only when both inputs are present and no stored
\* user has that e-mail with that password.
C14_LoginInputs ==
  /\ (req.handler = "login" /\ ~BothPresent(req.body))
       => response = Res(400, [error |-> "Email et mot de passe requis"])
  /\ (req.handler = "login" /\ response.status = 401)
       => /\ BothPresent(req.body)
          /\ \A u \in db.utilisateur :
               u.email = req.body.email => ~BcryptCompare(req.body.motDePasse, u.motDePasse)
  /\ router = "utilisateurs"
       => \A b \in Requests.utilisateurs.logins :
            ~BothPresent(b)
              => login(db.utilisateur, b).response = login({}, b).response

\* a login without motDePasse for a stored e-mail was answered 400
C14_Witness ==
  /\ req.handler = "login"
  /\ Has(req.body, "email") /\ ~Has(req.body, "motDePasse")
  /\ \E u \in db.utilisateur : u.email = req.body.email
  /\ response.status = 400

(***************************************************************************)
(* C15                                                                     *)
(***************************************************************************)
\* the text a read-by-id answers to an empty identifier
IdRequiredMessage ==
  CASE router = "produits" -> "ID du produit requis"
    [] router = "ingredients" -> "ID de l'ingrédient requis"
    [] router = "blogs" -> "ID du blog requis"
    [] router = "utilisateurs" -> "ID de l'utilisateur requis"

\* the last request was a read by an id that is empty or is the id of no row
EmptyOrUnknownId ==
  /\ req.handler \in ReadHandlers
  /\ \A row \in db[Table] : row.id # req.id

\* C15, as the specification states it: a read-by-id with an empty
\* identifier and one with an identifier that matches no record are both
\* answered not-found (404).
C15_EmptyIdIsNotFound ==
  EmptyOrUnknownId => response.status = 404

\* C15, amended: a read-by-id with an empty identifier is answered 400 'ID
\* ... requis', the same whatever the store holds; one with a non-empty
\* identifier that matches no record is answered 404 '... non trouvé'.
C15_EmptyIdIs400 ==
  /\ (EmptyOrUnknownId /\ req.id = << >>)
       => response = Res(400, [error |-> IdRequiredMessage])
  /\ (EmptyOrUnknownId /\ req.id # << >>)
       => response = Res(404, [error |-> NotFoundMessage])
  /\ getProduitById(db.produit, << >>).response = getProduitById({}, << >>).response
  /\ getIngredientById(db.ingredient, << >>).response
       = getIngredientById({}, << >>).response
  /\ getBlogById(db.blog, << >>).response = getBlogById({}, << >>).response
  /\ getUtilisateurById(db.utilisateur, << >>).response
       = getUtilisateurById({}, << >>).response

\* a read of the empty identifier was answered while the table held a row
C15_Witness ==
  /\ req.handler \in ReadHandlers
  /\ req.id = << >>
  /\ db[Table] # {}
  /\ response.status = 400

(***************************************************************************)
(* C16                                                                     *)
(***************************************************************************)
\* request r is a create or an update whose payload is valid on every field
\* of its schema and carries one more field, couleur
CarriesUnknown(r) ==
  /\ r.handler \in CreateHandlers \cup UpdateHandlers
  /\ Has(r.body, "couleur")
  /\ Without(r.body, {"couleur"})
       \in Requests[router].creates \cup Requests[router].updates

\* C16, as the specification states it: a create or update whose payload is
\* valid on all known fields and carries an unknown field is not refused as a
\* validation error; the create is answered 201 when its name is free, the
\* update is not answered 400 when its id is that of a record.
C16_UnknownFieldIgnored ==
  [][CarriesUnknown(req')
       => /\ ~(response'.status = 400 /\ response'.body.error = "Données invalides")
          /\ (req'.handler \in CreateHandlers
                /\ \A row \in db[Table] : row[NamedBy] # req'.body[NamedBy])
               => response'.status = 201
          /\ (req'.handler \in UpdateHandlers
                /\ \E row \in db[Table] : row.id = req'.id)
               => response'.status # 400]_vars

\* C16, amended: a create or update whose payload is valid on all known
\* fields and carries an unknown field is answered 400 'Données invalides',
\* its details naming the unknown field, and the store is not modified.
C16_UnknownFieldRefused ==
  [][CarriesUnknown(req')
       => /\ response'
               = Res(400, [error |-> "Données invalides",
                           details |-> << <<"couleur", "object.unknown">> >>])
          /\ db' = db]_vars

\* a create with an unknown field and a free name was refused
C16_Witness ==
  /\ CarriesUnknown(req)
  /\ req.handler \in CreateHandlers
  /\ \A row \in db[Table] : row[NamedBy] # req.body[NamedBy]
  /\ response.status = 400

(***************************************************************************)
(* C17                                                                     *)
(***************************************************************************)
\* the ids of the ingredients a list response carries
ListedIngredients == {response.body.ingredients[i].id : i \in 1..Len(response.body.ingredients)}

\* the last request listed the ingredients under query string q and was
\* answered 200
ListedUnder(q) ==
  /\ req.handler = "getAllIngredients"
  /\ req.query = q
  /\ response.status = 200

\* C17, as the specification states it: a boolean filter whose value is not
\* "true" is treated as absent, so the list with allergene=false, or with
\* bio=1, carries the records the list without the parameter carries: all of
\* them.
C17_FalseIsAbsent ==
  (ListedUnder([allergene |-> <<"f", "a", "l", "s", "e">>]) \/ ListedUnder([bio |-> <<"1">>]))
    => ListedIngredients = {row.id : row \in db.ingredient}

\* C17, amended: a boolean filter that is present selects on the flag, true
\* for the value "true" and false for any other value: the list with
\* allergene=false carries exactly the records that are not allergens, the
\* list with bio=1 those that are not bio, the list with bio=true those that
\* are bio, and the list with no parameter all records.
C17_FalseSelectsFalse ==
  /\ ListedUnder([allergene |-> <<"f", "a", "l", "s", "e">>])
       => ListedIngredients = {row.id : row \in {r \in db.ingredient : r.allergene = FALSE}}
  /\ ListedUnder([bio |-> <<"1">>])
       => ListedIngredients = {row.id : row \in {r \in db.ingredient : r.bio = FALSE}}
  /\ ListedUnder([bio |-> <<"t", "r", "u", "e">>])
       => ListedIngredients = {row.id : row \in {r \in db.ingredient : r.bio = TRUE}}
  /\ ListedUnder(EmptyMap)
       => ListedIngredients = {row.id : row \in db.ingredient}

\* the list with allergene=false left out a stored allergen
C17_Witness ==
  /\ ListedUnder([allergene |-> <<"f", "a", "l", "s", "e">>])
  /\ \E row \in db.ingredient : row.allergene = TRUE /\ row.id \notin ListedIngredients
  /\ \E row \in db.ingredient : row.id \in ListedIngredients

(***************************************************************************)
(* C18                                                                     *)
(***************************************************************************)
PagedHandlers == {"getAllProduits", "getAllIngredients", "getAllBlogs", "getAllUtilisateurs"}

SearchHandlers == {"searchProduits", "searchIngredients", "searchBlogs", "searchUtilisateurs"}

\* the key of a list response that holds the records
ListName ==
  CASE router = "produits" -> "produits"
    [] router = "ingredients" -> "ingredients"
    [] router = "blogs" -> "blogs"
    [] router = "utilisateurs" -> "utilisateurs"

ReturnedIds == {response.body[ListName][i].id : i \in 1..Len(response.body[ListName])}

CountedTotal ==
  IF req.handler \in SearchHandlers THEN response.body.count
  ELSE response.body.pagination.total[2]

\* the number a bound of the query string denotes, in thousandths
BoundOf(text) ==
  CASE text = <<"9", "5">> -> 95000
    [] text = <<"8", ".", "9">> -> 8900
    [] text = <<"8", ".", "9", "1">> -> 8910

\* query string q holds filters only, its flags set to "true"
FiltersOnly(q) ==
  /\ DOMAIN q \subseteq {"categorie", "origine", "auteur", "role", "bio", "allergene",
                         "newsletter", "publie", "yukaMin", "prixMax", "prixMin"}
  /\ \A f \in {"bio", "allergene", "newsletter", "publie"} \cap DOMAIN q :
       q[f] = <<"t", "r", "u", "e">>

\* the row satisfies every filter of query string q
Satisfies(row, q) ==
  /\ \A f \in {"categorie", "origine", "auteur", "role"} \cap DOMAIN q :
       Has(row, f) /\ row[f] = q[f]
  /\ \A f \in {"bio", "allergene", "newsletter", "publie"} \cap DOMAIN q : row[f] = TRUE
  /\ Has(q, "yukaMin") => Has(row, "yukaScore") /\ row.yukaScore >= BoundOf(q.yukaMin)
  /\ Has(q, "prixMax") => row.prix <= BoundOf(q.prixMax)
  /\ Has(q, "prixMin") => row.prix >= BoundOf(q.prixMin)

\* the last request was a list or a search by filters alone, answered 200
FilteredListing ==
  /\ req.handler \in PagedHandlers \cup SearchHandlers
  /\ FiltersOnly(req.query)
  /\ response.status = 200

\* C18, as the specification states it: a list or search returns and counts
\* exactly the stored records that satisfy every filter of its query string.
C18_ExactlyTheMatching ==
  FilteredListing
    => /\ ReturnedIds = {row.id : row \in {r \in db[Table] : Satisfies(r, req.query)}}
       /\ CountedTotal = Cardinality({r \in db[Table] : Satisfies(r, req.query)})

\* the rows a listing of the mounted router may show at all: the active
\* products, and every row of the other tables
Listable == {r \in db[Table] : router = "produits" => r.actif = TRUE}

\* C18, amended: a list or search returns and counts exactly the stored
\* records that satisfy every filter of its query string, among the active
\* ones for products; the listings by origin, by bio flag and by category
\* return the records of that origin, the bio ones, and the published ones of
\* that category.
C18_MatchingAmongListable ==
  /\ FilteredListing
       => /\ ReturnedIds = {row.id : row \in {r \in Listable : Satisfies(r, req.query)}}
          /\ CountedTotal = Cardinality({r \in Listable : Satisfies(r, req.query)})
  /\ (req.handler = "getIngredientsByOrigin" /\ req.query = EmptyMap)
       => ReturnedIds
            = {row.id : row \in {r \in db.ingredient : Has(r, "origine") /\ r.origine = req.id}}
  /\ (req.handler = "getBioIngredients" /\ req.query = EmptyMap)
       => ReturnedIds = {row.id : row \in {r \in db.ingredient : r.bio = TRUE}}
  /\ (req.handler = "getBlogsByCategory" /\ req.query = EmptyMap)
       => ReturnedIds
            = {row.id : row \in {r \in db.blog : r.categorie = req.id /\ r.publie = TRUE}}

\* the list with yukaMin=95 showed a product whose score is 95 and left
\* another stored product out
C18_Witness ==
  /\ FilteredListing
  /\ req.handler = "getAllProduits"
  /\ Has(req.query, "yukaMin")
  /\ \E row \in db.produit :
       Has(row, "yukaScore") /\ row.yukaScore = 95000 /\ row.id \in ReturnedIds
  /\ \E row \in db.produit : row.id \notin ReturnedIds

(***************************************************************************)
(* C19                                                                     *)
(***************************************************************************)
\* h is a hash of password p at work factor 10, under some salt
IsHashOf(h, p) == \E salt \in Salts : h = <<"$2b$", "10", salt>> \o p

\* the request r, answered by res, supplied a password for the user of id i
SuppliesPassword(r, res, i) ==
  \/ /\ r.handler = "createUtilisateur"
     /\ res.status = 201
     /\ res.body.utilisateur.id = i
  \/ /\ r.handler = "updateUtilisateur"
     /\ res.status = 200
     /\ r.id = i
     /\ Has(r.body, "motDePasse")

\* C19: in every step, the credential of a stored user is the hash at work
\* factor 10 of the password the step's create or update supplied for that
\* user, never the password itself, and is otherwise the credential the user
\* had before the step; so it is always the hash of the password supplied
\* last. A login for a stored e-mail is answered 200 when its password is the
\* one the stored credential was made from, and 401 otherwise, as with a
\* password that was valid before an update.
C19_CredentialIsLatestHash ==
  [][router = "utilisateurs"
       => /\ \A u \in db'.utilisateur :
               IF SuppliesPassword(req', response', u.id)
               THEN /\ IsHashOf(u.motDePasse, req'.body.motDePasse)
                    /\ u.motDePasse # req'.body.motDePasse
               ELSE \E old \in db.utilisateur :
                      old.id = u.id /\ old.motDePasse = u.motDePasse
          /\ (/\ req'.handler = "login"
              /\ Has(req'.body, "email") /\ Has(req'.body, "motDePasse")
              /\ \E u \in db'.utilisateur : u.email = req'.body.email)
               => \A u \in db'.utilisateur :
                    u.email = req'.body.email
                      => response'.status
                           = IF IsHashOf(u.motDePasse, req'.body.motDePasse) THEN 200 ELSE 401]_vars

\* a user created with one password and updated with another was refused a
\* login with the first
C19_Witness ==
  /\ req.handler = "login"
  /\ req.body = [email |-> <<"a", "@", "b", ".", "f", "r">>, motDePasse |-> Rep(8, "p")]
  /\ \E u \in db.utilisateur :
       u.email = req.body.email /\ IsHashOf(u.motDePasse, Rep(8, "w"))
  /\ response.status = 401

(***************************************************************************)
(* C20                                                                     *)
(***************************************************************************)
\* the ids and the total of the response of the list that was in flight
PageIds ==
  {pending.response.body.blogs[i].id : i \in 1..Len(pending.response.body.blogs)}

PageTotal == pending.response.body.pagination.total[2]

\* the response is one that running the two queries in the given order gives
\* under the same requests of others: its page is the one of some state of
\* the table during the request, its total the one of some state, and the
\* state of the query that ran first is not later than the other's
Obtainable(order) ==
  \E i, j \in 1..Len(pending.hist) :
    /\ order = "findMany, count" => i <= j
    /\ order = "count, findMany" => j <= i
    /\ PageIds = {row.id : row \in {r \in pending.hist[i] : Satisfies(r, pending.query)}}
    /\ PageTotal = Cardinality({r \in pending.hist[j] : Satisfies(r, pending.query)})

\* C20, as the specification states it: running the two queries of a list
\* one after the other, in either order, gives the same possible responses
\* as running them concurrently: under the same requests of others, a
\* response of the concurrent run is a response of the findMany-then-count
\* run and of the count-then-findMany run, and the converse.
C20_SameResponses ==
  Has(pending, "response")
    => /\ Obtainable("findMany, count")
       /\ Obtainable("count, findMany")

\* C20, amended: under the same requests of others, a response of the run
\* that awaits findMany and then counts, or counts and then awaits findMany,
\* is a response of that order, and a response of the concurrent run is a
\* response of one order or of the other: each sequential run gives some of
\* the responses of the concurrent run, not all.
C20_SequentialRefines ==
  Has(pending, "response")
    => /\ pending.run = "findMany, count" => Obtainable("findMany, count")
       /\ pending.run = "count, findMany" => Obtainable("count, findMany")
       /\ pending.run = "Promise.all"
            => Obtainable("findMany, count") \/ Obtainable("count, findMany")

\* the concurrent run answered a page with a blog and a total of 0, which no
\* findMany-then-count run gives under the same requests of others
C20_Witness ==
  /\ Has(pending, "response")
  /\ pending.run = "Promise.all"
  /\ PageIds # {}
  /\ PageTotal = 0
  /\ ~Obtainable("findMany, count")

(***************************************************************************)
(* C21                                                                     *)
(***************************************************************************)
\* request r is an update, valid on its schema, of a stored ingredient or
\* user, that sets its nom (or email) to that of another stored record
TakesNameOfAnother(r) ==
  /\ router \in {"ingredients", "utilisateurs"}
  /\ r.handler \in UpdateHandlers
  /\ r.body \in Requests[router].updates
  /\ Has(r.body, NamedBy)
  /\ \E row \in db[Table] : row.id = r.id
  /\ \E row \in db[Table] : row.id # r.id /\ row[NamedBy] = r.body[NamedBy]

\* C21: an update that sets an ingredient's nom to the nom of another
\* ingredient, or a user's email to the email of another user, is answered
\* 400, not 500, and leaves the store unchanged.
C21_UpdateConflictIs400 ==
  [][TakesNameOfAnother(req') => (response'.status = 400 /\ db' = db)]_vars

(***************************************************************************)
(* C22                                                                     *)
(***************************************************************************)
\* the calls of the two clients are creates of the same nom, both answered 201
BothCreated ==
  /\ DOMAIN pending = {"a", "b"}
  /\ \A c \in {"a", "b"} :
       /\ pending[c].handler = "createIngredient"
       /\ pending[c].response.status = 201
  /\ pending.a.body.nom = pending.b.body.nom

UpdateOn(rows, id, body) ==
  (CASE router = "produits" -> updateProduit(rows, id, body)
     [] router = "ingredients" -> updateIngredient(rows, id, body)
     [] router = "blogs" -> updateBlog(rows, id, body)
     [] router = "utilisateurs" -> updateUtilisateur(rows, id, body, "saltA")).response

\* C23: an update tests its id, then validates its payload, then looks the
\* record up, then updates: an update with an invalid payload is answered
\* 400 'Données invalides' whether or not its id is that of a record, the
\* same as on an empty table, and leaves the store as it was; with an empty
\* id the answer is the id's 400 even for an invalid payload; with a valid
\* payload and an id of no record it is 404.
C23_UpdateOrder ==
  [][req'.handler \in UpdateHandlers
       => /\ req'.body \in InvalidUpdates
               => /\ response'.status = 400
                  /\ response'.body.error = "Données invalides"
                  /\ response' = UpdateOn({}, req'.id, req'.body)
                  /\ db' = db
          /\ \A body \in Updates :
               UpdateOn(db[Table], << >>, body) = Res(400, [error |-> IdRequiredMessage])
          /\ (req'.body \notin InvalidUpdates /\ \A row \in db[Table] : row.id # req'.id)
               => response' = Res(404, [error |-> NotFoundMessage]) /\ db' = db]_vars

\* an update with an invalid payload named an id of no record while the
\* table held a row, and was answered 400
C23_Witness ==
  /\ req.handler = "updateBlog"
  /\ req.body \in InvalidUpdates
  /\ req.id = NoSuchId
  /\ db.blog # {}
  /\ response.status = 400
  /\ response.body.error = "Données invalides"

(***************************************************************************)
(* C24: the window of a paginated list                                     *)
(***************************************************************************)

\* the decimal text of the small numbers the pages and limits below use
Decimal(n) == <<CASE n = 1 -> "1" [] n = 2 -> "2" [] n = 3 -> "3" [] n = 4 -> "4">>

\* the pages and limits the window is computed for
Pages == 1..4

Limits == 1..2

\* the filters of the last request, its page and limit left out
ListFilters == Without(req.query, {"page", "limit"})

\* the last request was a list whose query string holds filters, and possibly a
\* page and a limit
PagedListing == req.handler \in PagedHandlers /\ FiltersOnly(ListFilters)

\* the alphabetical rank of the names the ingredients of the model bear
NomRank(nom) ==
  CASE nom = <<"A", "l", "o", "e">> -> 1
    [] nom = <<"M", "i", "e", "l">> -> 2

\* record a stands before record b in the default order of the mounted router
DefaultOrder(a, b) ==
  IF router = "ingredients" THEN NomRank(a.nom) < NomRank(b.nom)
  ELSE a.createdAt > b.createdAt

\* the position, from 0, of a record among the records of `rows` in the default order
PositionIn(rows, row) == Cardinality({o \in rows : DefaultOrder(o, row)})

\* the response of the mounted router's list to a query string
ListOn(query) ==
  (CASE router = "produits" -> getAllProduits(db.produit, query)
     [] router = "ingredients" -> getAllIngredients(db.ingredient, query)
     [] router = "blogs" -> getAllBlogs(db.blog, query)
     [] router = "utilisateurs" -> getAllUtilisateurs(db.utilisateur, query)).response

\* the identifiers a list response holds, in order
IdsOf(res) == [i \in 1..Len(res.body[ListName]) |-> res.body[ListName][i].id]

\* the response holds exactly the records of `rows` at positions
\* (page - 1) * limit to page * limit - 1 of the default order, in that order
HoldsWindow(res, rows, page, limit) ==
  LET ids == IdsOf(res)
      window == {r \in rows : /\ PositionIn(rows, r) >= (page - 1) * limit
                               /\ PositionIn(rows, r) <= page * limit - 1}
  IN /\ res.status = 200
     /\ Len(ids) = Cardinality(window)
     /\ \A r \in window : ids[PositionIn(rows, r) - (page - 1) * limit + 1] = r.id

\* C24: for a page and a limit of at least 1, a paginated list returns
\* exactly the records at positions (page - 1) * limit to page * limit - 1 of
\* the filtered records in the default order (ingredients by nom ascending,
\* the others by createdAt descending); over an unchanged store the pages 1
\* to `pages` are pairwise disjoint and hold each filtered record exactly once.
C24_PageIsWindow ==
  PagedListing
    => LET rows == {r \in Listable : Satisfies(r, ListFilters)}
           PageOn(p, limit) ==
             ListOn(Merge(ListFilters, [page |-> Decimal(p), limit |-> Decimal(limit)]))
           IdsOnPage(p, limit) ==
             {IdsOf(PageOn(p, limit))[i] : i \in 1..Len(IdsOf(PageOn(p, limit)))}
       IN /\ \A page \in Pages : \A limit \in Limits :
               HoldsWindow(PageOn(page, limit), rows, page, limit)
          /\ \A limit \in Limits :
               LET pages == PageOn(1, limit).body.pagination.pages[2]
               IN /\ pages \in 0..4
                  /\ \A p1, p2 \in 1..pages :
                       p1 # p2 => IdsOnPage(p1, limit) \cap IdsOnPage(p2, limit) = {}
                  /\ \A r \in rows : \E p \in 1..pages : r.id \in IdsOnPage(p, limit)
                  /\ \A p \in 1..pages : IdsOnPage(p, limit) \subseteq {r.id : r \in rows}
          /\ req.query = [page |-> <<"2">>, limit |-> <<"1">>]
               => HoldsWindow(response, rows, 2, 1)

\* page 2 of a list of two records, one record a page, was answered with the
\* second record of the default order
C24_Witness ==
  /\ req.handler \in PagedHandlers
  /\ req.query = [page |-> <<"2">>, limit |-> <<"1">>]
  /\ Cardinality(Listable) = 2
  /\ response.status = 200
  /\ Len(response.body[ListName]) = 1
  /\ \E r \in Listable : PositionIn(Listable, r) = 1 /\ response.body[ListName][1].id = r.id

(***************************************************************************)
(* C25: the free-text search                                               *)
(***************************************************************************)

\* q occurs in text as it is written, letter case included
IsSubstring(q, text) ==
  \E before \in 0..Len(text) :
    /\ before + Len(q) <= Len(text)
    /\ \A i \in 1..Len(q) : text[before + i] = q[i]

\* the two text fields the search of the mounted router reads
SearchFields == IF router = "blogs" THEN {"titre", "contenu"} ELSE {"nom", "description"}

\* the response of the mounted router's search to a query string
SearchOn(query) ==
  (CASE router = "produits" -> searchProduits(db.produit, query)
     [] router = "ingredients" -> searchIngredients(db.ingredient, query)
     [] router = "blogs" -> searchBlogs(db.blog, query)).response

\* query strings with a text to search: in the first field, in the second, in
\* neither because of the letter case, and next to other filters
SearchProbes ==
  CASE router = "produits" ->
         { [q |-> <<"a", "v">>], [q |-> <<"s", "a">>], [q |-> <<"d", "d">>],
           [q |-> <<"a", "v">>, categorie |-> "savon"],
           [q |-> <<"d", "d">>, categorie |-> "crème"],
           [q |-> <<"d", "d">>, prixMax |-> <<"8", ".", "9">>] }
    [] router = "ingredients" ->
         { [q |-> <<"i", "e">>], [q |-> <<"m", "i">>], [q |-> <<"l">>],
           [q |-> <<"i", "e">>, bio |-> TextTrue],
           [q |-> <<"l">>, origine |-> "Maroc"] }
    [] router = "blogs" ->
         { [q |-> Rep(6, "t")], [q |-> <<"T">>], [q |-> <<"c", "c">>],
           [q |-> <<"t", "t">>, categorie |-> "santé"],
           [q |-> <<"c", "c">>, auteur |-> "Marie Dubois"] }

\* the records the search for a query string is to return
Matching(query) ==
  {r \in Listable :
     /\ \E f \in SearchFields : Has(r, f) /\ IsSubstring(query.q, r[f])
     /\ Satisfies(r, Without(query, {"q"}))}

\* the response holds the records of `rows`, each once, and their number as count
HoldsAll(res, rows) ==
  /\ res.status = 200
  /\ {res.body[ListName][i].id : i \in 1..Len(res.body[ListName])} = {r.id : r \in rows}
  /\ Len(res.body[ListName]) = Cardinality(rows)
  /\ res.body.count = Len(res.body[ListName])

\* the last request was a search of products, ingredients or blogs
TextSearch == req.handler \in {"searchProduits", "searchIngredients", "searchBlogs"}

MutatesAfterCheck(c) ==
  /\ c \in DOMAIN pending
  /\ pending[c].handler \in {"updateIngredient", "deleteIngredient"}
  /\ pending[c].at = "write"
  /\ pending'[c].at = "done"
  /\ \A row \in db.ingredient :
       (Has(pending[c].body, "nom") /\ row.nom = pending[c].body.nom) => row.id = pending[c].id

\* C26, as the specification states it: an update or a delete whose record
\* another request deletes between its existence check and its mutating call
\* is answered 404 or 200, never 500.
C26_NeverServerError ==
  [][\A c \in {"a", "b"} :
       MutatesAfterCheck(c) => pending'[c].response.status \in {200, 404}]_vars

(***************************************************************************)
(* C27: the skip and the take a list passes to the store                   *)
(***************************************************************************)

\* C27, as the specification states it: whatever page and limit the query
\* string holds, a list passes the store a skip of at least 0 and a take of at
\* least 1; page is 1 and limit is 10 when the query string omits them.
C27_SkipAndTakeInRange ==
  req.handler \in ListHandlers
    => LET skip == JsSkip(PageOf(req.query), LimitOf(req.query))
           take == LimitOf(req.query)
       IN /\ skip.kind = "int" /\ skip.v >= 0
          /\ take.kind = "int" /\ take.v >= 1
          /\ ~Has(req.query, "page") => PageOf(req.query) = JsInt(1)
          /\ ~Has(req.query, "limit") => take = JsInt(10)

(***************************************************************************)
(* C28: one response per invocation                                        *)
(***************************************************************************)

\* the call sent no response while it runs and exactly one once it returned
OneResponse(call) ==
  /\ call.sent \in {0, 1}
  /\ call.sent = 1 <=> call.at = "done"
  /\ call.sent = 0 => call.response.status = 0
  /\ call.sent = 1 => call.response.status \in {200, 201, 400, 404, 500}

Routed(method, path) == Has(req, "method") /\ req.method = method /\ req.path = path

\* C29: GET on a literal sub-path (/search on every router, /bio and
\* /origine/:origine on ingredients, /categorie/:categorie on blogs) reaches
\* the handler of that sub-path, never the get-by-id handler, and POST /login
\* reaches login, never the create handler.
C29_LiteralRoutesFirst ==
  /\ Routed("GET", <<"search">>)
       => /\ req.handler \in SearchHandlers
          /\ req.handler \notin ReadHandlers
  /\ (router = "ingredients" /\ Routed("GET", <<"bio">>))
       => req.handler = "getBioIngredients"
  /\ (router = "ingredients" /\ Routed("GET", <<"origine", "Maroc">>))
       => req.handler = "getIngredientsByOrigin" /\ req.id = "Maroc"
  /\ (router = "blogs" /\ Routed("GET", <<"categorie", "DIY">>))
       => req.handler = "getBlogsByCategory" /\ req.id = "DIY"
  /\ (router = "utilisateurs" /\ Routed("POST", <<"login">>))
       => req.handler = "login"
  /\ Routed("GET", <<"c1">>) => req.handler \in ReadHandlers /\ req.id = "c1"

\* GET /origine/Maroc reached the listing by origin with Maroc as its parameter
C29_Witness ==
  /\ router = "ingredients"
  /\ Routed("GET", <<"origine", "Maroc">>)
  /\ req.handler = "getIngredientsByOrigin"
  /\ req.id = "Maroc"

(***************************************************************************)
(* C30: inactive products                                                  *)
(***************************************************************************)

\* query strings of the product list and search: none, filters, a text, and
\* an attempt to ask for the inactive products
ActifProbes ==
  { EmptyMap, [categorie |-> "crème"], [yukaMin |-> <<"9", "5">>],
    [prixMax |-> <<"8", ".", "9", "1">>], [q |-> <<"a", "i">>],
    [actif |-> <<"f", "a", "l", "s", "e">>] }

\* the product is in no answer of the list or the search, and the number they
\* report counts active products only
Invisible(row) ==
  \A query \in ActifProbes :
    \A res \in {ListOn(query), SearchOn(query)} :
      /\ res.status = 200
      /\ \A i \in 1..Len(res.body.produits) : res.body.produits[i].id # row.id
      /\ (IF Has(res.body, "count") THEN res.body.count ELSE res.body.pagination.total[2])
           <= Cardinality({r \in db.produit : r.actif = TRUE})

\* C30: the product list and search never return or count a product whose
\* actif is false, whatever the filters; a product is invisible to them as
\* soon as an update sets its actif to false, and remains readable by id.
C30_InactiveInvisible ==
  router = "produits"
    => /\ (req.handler \in {"getAllProduits", "searchProduits"} /\ response.status = 200)
            => /\ \A i \in 1..Len(response.body.produits) :
                    response.body.produits[i].actif = TRUE
               /\ CountedTotal <= Cardinality({r \in db.produit : r.actif = TRUE})
       /\ (req.handler \in {"updateProduit", "createProduit"} /\ response.status \in {200, 201})
            => \A row \in db.produit :
                 row.actif = FALSE
                   => /\ Invisible(row)
                      /\ getProduitById(db.produit, row.id).response = Res(200, row)
       /\ (/\ req.handler = "updateProduit"
           /\ response.status = 200
           /\ Has(req.body, "actif")
           /\ req.body.actif = FALSE)
            => \E row \in db.produit : row.id = req.id /\ row.actif = FALSE

\* an update set actif to false on one of two products: the list shows the
\* other one alone
C30_Witness ==
  /\ router = "produits"
  /\ req.handler = "updateProduit"
  /\ response.status = 200
  /\ Has(req.body, "actif") /\ req.body.actif = FALSE
  /\ Cardinality(db.produit) = 2
  /\ \E row \in db.produit : row.id # req.id /\ row.actif = TRUE
  /\ Len(ListOn(EmptyMap).body.produits) = 1
  /\ ListOn(EmptyMap).body.produits[1].id # req.id

====
